---- MODULE Spec2Model ----
(***************************************************************************)
(* vitrine: a display server for one project directory (".vitrine").       *)
(*                                                                         *)
(* The parts of the program that are modelled, each with its own           *)
(* specification over the shared state:                                    *)
(*   SpecLifecycle  server start-up, discovery and shutdown                *)
(*                  (server.py _run_standalone, __init__.py                *)
(*                  _ensure_started / _discover_server)                    *)
(*   SpecReclaim    standalone starts next to another project's server     *)
(*                  (server.py _kill_orphaned_servers)                     *)
(*   SpecWait       blocking cards: pending_responses, browser responses,  *)
(*                  wait_for re-attachment                                 *)
(*   SpecDispatch   agent dispatches: run, monitor, cancel, watchdog       *)
(*   SpecAgent      one agent card in full: the HTTP and WebSocket         *)
(*                  requests, the stored card, the broadcasts, a server    *)
(*                  restart                                                *)
(*   SpecAgentLive  the same without the restart, the monitor task and     *)
(*                  the end of the child process weakly fair               *)
(*   SpecStop       DisplayServer.stop() next to the event loop, the       *)
(*                  selection debounce timer and POST /api/shutdown        *)
(*   SpecShutdown   the same with the running threads weakly fair          *)
(*   SpecReplay     a browser socket: replay on connect, broadcasts        *)
(*   SpecStudy      StudyManager: studies on disk and in memory            *)
(*   SpecPersist    the same manager with creations, stores, renames and   *)
(*                  restarts only                                          *)
(*   SpecEvents     the queue of UI events behind GET /api/events          *)
(*   SpecApi        the token-gated endpoints of a standalone and of an    *)
(*                  in-thread server                                       *)
(*   SpecStream     _stream_monitor of one dispatch: throttled card        *)
(*                  updates, the exits, sandbox and paper workspace        *)
(*   SpecSearch     the search string of read_table_page                   *)
(*   SpecIndex      index.json written by the client process and by the    *)
(*                  server                                                 *)
(***************************************************************************)
EXTENDS Integers, Naturals, Sequences, FiniteSets, Bags, TLC

\* ------------------------------------------------------------------ bounds
\* Standalone server processes (python -m vitrine.server) that may be launched.
NumStarters == 2
\* Client processes (import vitrine; show(...)) on the same directory.
NumClients == 2

\* ------------------------------------------------------- program constants
_DEFAULT_PORT == 7741
_MAX_PORT == 7750

Starters == 1..NumStarters
Clients == (NumStarters + 1)..(NumStarters + NumClients)
Pids == Starters \cup Clients
NoPid == 0
\* The server of another project directory; its own <dir>/.server.json names
\* it for as long as it serves.
Neighbour == NumStarters + NumClients + 1
Ports == _DEFAULT_PORT.._MAX_PORT
NoPort == 0

\* The content of <dir>/.server.json; NoFile when the file does not exist.
NoFile == [pid |-> NoPid, port |-> NoPort, session_id |-> NoPid]
\* A client's local `info` before it has read the PID file.
Unread == [pid |-> NoPid, port |-> NoPort, session_id |-> 0 - 1]
\* The file between open(path, "w") and the write of the JSON text: empty or
\* cut short, json.loads fails on it.
Partial == [pid |-> NoPid, port |-> NoPort, session_id |-> 0 - 2]

VARIABLES
    \* ---- lifecycle
    lockHolder,     \* pid holding the flock on <dir>/.server.lock, or NoPid
    pidFile,        \* content of <dir>/.server.json, or NoFile
    portOwner,      \* [Ports -> pid of the process listening there, or NoPid]
    spc,            \* [Starters -> position in _run_standalone]
    sport,          \* [Starters -> DisplayServer.port, or NoPort]
    neighbour,      \* the other project's server: none | serving | signalled
    cpc,            \* [Clients -> position in _ensure_started]
    cinfo,          \* [Clients -> the record _discover_server has read]
    stopEvent,      \* starters whose stop_event is set (signal received)
    wrotePid,       \* history: starters that have written the PID file
    everBound,      \* history: starters that have bound a port
    stopSeen,       \* history: some server has been told to stop
    clientLocked,   \* history: some client has held the start-up lock
    \* ---- blocking cards
    loop,           \* DisplayServer._loop is set (the event loop runs)
    cards,          \* [Cards -> the card's record in the study's index.json]
    pending,        \* DisplayServer._pending_responses: [Cards -> wait or NoWait]
    wpc,            \* [Waits -> position of the call]
    wcard,          \* [Waits -> card id the call is about]
    wtimeout,       \* [Waits -> the timeout argument of a wait_for call]
    futState,       \* [Waits -> state of the future the wait created]
    futResult,      \* [Waits -> the value set_result gave that future]
    wret,           \* [Waits -> what the call returned to its caller]
    pushed,         \* messages broadcast to the browser
    newest,         \* history: [Cards -> the wait registered last, or NoWait]
    \* ---- agent dispatches
    dispatches,     \* DisplayServer._dispatches: the bag of DispatchInfo records
    capHit,         \* history: run_agent has refused a run at the limit
    cancels,        \* number of cancel_agent calls that found a running agent
    \* ---- one agent card, from the request to the stored card
    mem,            \* [Agents -> DisplayServer._dispatches.get(id), or NoInfo]
    acc,            \* [Agents -> info.accumulated_output]
    store,          \* [Agents -> the card in the study's index.json]
    req,            \* the browser request being handled, or NoReq
    reply,          \* HTTP status the last request was answered with, 0: none
    sent,           \* the message broadcast last
    \* ---- server stop and the selection map
    stopPc,         \* "serving", the statement of stop() to run next, "returned"
    watchdog,       \* DisplayServer._watchdog_task: unset | running | cancelled
    liveAgent,      \* a dispatch with status "running" exists
    srvPid,         \* whose pid .server.json records: own | foreign | absent
    selections,     \* DisplayServer._selections
    selFile,        \* content of selections.json
    timerArmed,     \* a _selection_save_timer is waiting for its second to pass
    inflight,       \* copies of the map that timer threads have yet to write
    loopAlive,      \* the event loop thread runs
    shouldExit,     \* uvicorn Server.should_exit
    stopLog,        \* history: what stop() has done, in order
    \* ---- a browser socket
    rcards,         \* [ReplayCards -> absent | stored | deleted] in index.json
    wsPc,           \* closed | replaying | open
    wsQueue,        \* the listed cards the replay loop has yet to send
    wsLog,          \* what the socket has been sent since it was accepted
    \* ---- studies
    now,            \* the clock, in seconds
    meta,           \* [StudyDirs -> "label" of <dir>/meta.json, or NoLabel]
    diskCards,      \* [StudyCards -> directory and study of the index record]
    _stores,        \* StudyManager._stores: the directory names that are keys
    _label_to_dir,  \* StudyManager._label_to_dir
    _card_index,    \* StudyManager._card_index
    deletes,        \* number of delete_study calls so far
    \* ---- the gated HTTP endpoints and the event queue
    token,          \* DisplayServer.token; "unset": no server constructed yet
    apiReq,         \* the HTTP request being handled, or NoApiReq
    apiReply,       \* status code of the last answer, 0: none yet
    apiSent,        \* what the last request made the server broadcast
    apiPending,     \* _pending_responses holds a future for the card
    apiExit,        \* uvicorn Server.should_exit of this server
    _event_queue,   \* DisplayServer._event_queue: arrival numbers, oldest first
    \* ---- one dispatch under its stream monitor
    clock,          \* loop.time(), in milliseconds
    smPc,           \* idle | read | done | stopped: where the monitor task is
    smStatus,       \* info.status
    smProc,         \* the child process: none | alive | exited
    accumulated,    \* number of text chunks in `accumulated`
    final_result,   \* the text of a "result" event, or None
    last_update,    \* loop.time() of the last throttled card update
    smCard,         \* the card's preview in index.json: status, output, error
    smSent,         \* what the last step broadcast
    extra,          \* info.extra: sandbox, paper_workspace, paper_copies
    sandbox,        \* the <output>_reproduce directory exists
    paperFiles,     \* the paths that exist under output/paper
    agentMade,      \* history: the paths the agent created under output/paper
    \* ---- a table page request
    search,         \* the `search` argument, a sequence of characters
    sqlWhere,       \* the WHERE clause of the query that was executed
    page,           \* none | unfiltered | filtered: what read_table_page returned
    \* ---- a study's index.json and the processes that write it
    indexFile,      \* content of index.json: the cards and their set fields
    idxClient,      \* the client process inside a store call: pc, snapshot, change
    idxServer,      \* the server process inside update_card: pc, snapshot, change
    acked           \* history: the changes whose store call has returned

lifeVars == <<lockHolder, pidFile, portOwner, spc, sport, neighbour, cpc,
              cinfo, stopEvent, wrotePid, everBound, stopSeen, clientLocked>>
waitVars == <<loop, cards, pending, wpc, wcard, wtimeout, futState, futResult,
              wret, pushed, newest>>
dispVars == <<dispatches, capHit, cancels>>
agentVars == <<mem, acc, store, req, reply, sent>>
stopVars == <<stopPc, watchdog, liveAgent, srvPid, selections, selFile,
              timerArmed, inflight, loopAlive, shouldExit, stopLog>>
replayVars == <<rcards, wsPc, wsQueue, wsLog>>
studyVars == <<now, meta, diskCards, _stores, _label_to_dir, _card_index,
               deletes>>
apiVars == <<token, apiReq, apiReply, apiSent, apiPending, apiExit,
             _event_queue>>
streamVars == <<clock, smPc, smStatus, smProc, accumulated, final_result,
                last_update, smCard, smSent, extra, sandbox, paperFiles,
                agentMade>>
searchVars == <<search, sqlWhere, page>>
indexVars == <<indexFile, idxClient, idxServer, acked>>
moreVars == <<apiVars, streamVars, searchVars, indexVars>>
serverVars == <<stopVars, replayVars, studyVars, moreVars>>
vars == <<lifeVars, waitVars, dispVars, agentVars, serverVars>>
\* What the actions of one part leave alone.
notLife == <<waitVars, dispVars, agentVars, serverVars>>
notWait == <<lifeVars, dispVars, agentVars, serverVars>>
notDisp == <<lifeVars, waitVars, agentVars, serverVars>>
notAgent == <<lifeVars, waitVars, dispVars, serverVars>>
notStop == <<lifeVars, waitVars, dispVars, agentVars, replayVars, studyVars,
            moreVars>>
notReplay == <<lifeVars, waitVars, dispVars, agentVars, stopVars, studyVars,
              moreVars>>
notStudy == <<lifeVars, waitVars, dispVars, agentVars, stopVars, replayVars,
             moreVars>>
earlierVars == <<lifeVars, waitVars, dispVars, agentVars, stopVars, replayVars,
                studyVars>>
notApi == <<earlierVars, streamVars, searchVars, indexVars>>
notStream == <<earlierVars, apiVars, searchVars, indexVars>>
notSearch == <<earlierVars, apiVars, streamVars, indexVars>>
notIndex == <<earlierVars, apiVars, streamVars, searchVars>>

\* ------------------------------------------------------------ lifecycle
\* _utils.is_pid_alive: os.kill(pid, 0) succeeds.
is_pid_alive(pid) ==
    \/ pid \in Starters /\ spc[pid] \notin {"idle", "exited"}
    \/ pid \in Clients /\ cpc[pid] # "dead"

\* Every server process draws a fresh session id; the pid stands for it.
SessionOf(pid) == pid

\* _utils.health_check: GET /api/health at the port answers status ok with
\* the expected session id.
health_check(port, sid) ==
    /\ port \in Ports
    /\ portOwner[port] # NoPid
    /\ SessionOf(portOwner[port]) = sid

\* The PID-file validation of _run_standalone (inside the lock).
PidFileHealthy(info) ==
    /\ info.pid # NoPid
    /\ info.port # NoPort
    /\ is_pid_alive(info.pid)
    /\ health_check(info.port, info.session_id)

\* DisplayServer._find_port: the first port from _DEFAULT_PORT that binds.
FreePorts == {p \in Ports : portOwner[p] = NoPid}
_find_port == IF FreePorts = {} THEN NoPort
              ELSE CHOOSE p \in FreePorts : \A q \in FreePorts : p <= q

\* The servers of this directory that are bound and answering requests.
Serving == {portOwner[p] : p \in Ports} \cap Pids

IdleStarters == {s \in Starters : spc[s] = "idle"}
\* Process ids are handed out in order: the next process is the lowest idle one.
NextStarter(s) == s \in IdleStarters /\ \A t \in IdleStarters : s <= t
NextClient(c) == \A b \in Clients : b < c => cpc[b] # "idle"
StartingClients == {c \in Clients : cpc[c] \in {"fast", "want", "locked"}}

LifeInit ==
    /\ lockHolder = NoPid
    /\ pidFile = NoFile
    /\ portOwner = [p \in Ports |-> NoPid]
    /\ spc = [s \in Starters |-> "idle"]
    /\ sport = [s \in Starters |-> NoPort]
    /\ neighbour = "none"
    /\ cpc = [c \in Clients |-> "idle"]
    /\ cinfo = [c \in Clients |-> Unread]
    /\ stopEvent = {}
    /\ wrotePid = {}
    /\ everBound = {}
    /\ stopSeen = FALSE
    /\ clientLocked = FALSE

\* A user runs `vitrine start` / python -m vitrine.server.  (A starter is
\* kept in reserve for every client that may still spawn one.)
LaunchStandalone(s) ==
    /\ NextStarter(s)
    /\ Cardinality(IdleStarters) > Cardinality(StartingClients)
    /\ spc' = [spc EXCEPT ![s] = "start"]
    /\ UNCHANGED <<sport, neighbour, lockHolder, pidFile, portOwner, cpc, cinfo, stopEvent,
                   wrotePid, everBound, stopSeen, clientLocked>>
    /\ UNCHANGED notLife

\* (mutant) a lock that is always granted.
lock_file_nb_Granted == TRUE

\* lock_file(fd, exclusive=True, blocking=False): LOCK_EX | LOCK_NB succeeds
\* exactly when nobody holds the lock.
lock_file_nb == lockHolder = NoPid

\* _run_standalone: take the lock or exit at once.
RunStandalone_Lock(s) ==
    /\ spc[s] = "start"
    /\ IF lock_file_nb
       THEN /\ lockHolder' = s
            /\ spc' = [spc EXCEPT ![s] = "locked"]
       ELSE /\ spc' = [spc EXCEPT ![s] = "exited"]
            /\ UNCHANGED lockHolder
    /\ UNCHANGED <<sport, neighbour, pidFile, portOwner, cpc, cinfo, stopEvent,
                   wrotePid, everBound, stopSeen, clientLocked>>
    /\ UNCHANGED notLife

\* _run_standalone: inside the lock, exit when the PID file names a live,
\* healthy server (the finally clause releases the lock).
RunStandalone_CheckPid(s) ==
    /\ spc[s] = "locked"
    /\ IF PidFileHealthy(pidFile)
       THEN /\ spc' = [spc EXCEPT ![s] = "exited"]
            /\ lockHolder' = NoPid
       ELSE /\ spc' = [spc EXCEPT ![s] = "reclaim"]
            /\ UNCHANGED lockHolder
    /\ UNCHANGED <<sport, neighbour, pidFile, portOwner, cpc, cinfo, stopEvent,
                   wrotePid, everBound, stopSeen, clientLocked>>
    /\ UNCHANGED notLife

\* _kill_orphaned_servers: every port of the range that answers the health
\* probe gets SIGTERM sent to the process listening on it.  A client process
\* hosting an in-thread server has no handler and dies; a standalone server's
\* handler sets its stop_event.
Probed == {p \in Ports : portOwner[p] # NoPid}
_kill_orphaned_servers(s) ==
    LET victims == {portOwner[p] : p \in Probed}
    IN  /\ cpc' = [c \in Clients |-> IF c \in victims THEN "dead" ELSE cpc[c]]
        /\ portOwner' = [p \in Ports |->
                            IF portOwner[p] \in Clients THEN NoPid
                            ELSE portOwner[p]]
        /\ stopEvent' = stopEvent \cup (victims \cap Starters)
        /\ neighbour' = IF Neighbour \in victims THEN "signalled"
                        ELSE neighbour
        /\ stopSeen' = (stopSeen \/ victims # {})

RunStandalone_KillOrphans(s) ==
    /\ spc[s] = "reclaim"
    /\ _kill_orphaned_servers(s)
    /\ spc' = [spc EXCEPT ![s] = "bind"]
    /\ UNCHANGED <<sport, lockHolder, pidFile, cinfo, wrotePid, everBound,
                   clientLocked>>
    /\ UNCHANGED notLife

\* DisplayServer.start: self.port = self._find_port().  With no free port
\* _find_port raises and the finally clause releases the lock.
Start_FindPort(s) ==
    /\ spc[s] = "bind"
    /\ IF _find_port = NoPort
       THEN /\ spc' = [spc EXCEPT ![s] = "exited"]
            /\ lockHolder' = NoPid
            /\ UNCHANGED sport
       ELSE /\ sport' = [sport EXCEPT ![s] = _find_port]
            /\ spc' = [spc EXCEPT ![s] = "found"]
            /\ UNCHANGED lockHolder
    /\ UNCHANGED <<neighbour, pidFile, portOwner, cpc, cinfo, stopEvent,
                   wrotePid, everBound, stopSeen, clientLocked>>
    /\ UNCHANGED notLife

\* uvicorn binds self.port in the server thread: it succeeds when nobody has
\* taken the port since _find_port probed it.
BindSucceeds(s) == portOwner[sport[s]] = NoPid

\* DisplayServer.start: the server thread binds and serves, or fails to bind
\* and ends; _wait_for_server returns either way and start() goes on.
Start_Bind(s) ==
    /\ spc[s] = "found"
    /\ IF BindSucceeds(s)
       THEN /\ portOwner' = [portOwner EXCEPT ![sport[s]] = s]
            /\ everBound' = everBound \cup {s}
       ELSE UNCHANGED <<portOwner, everBound>>
    /\ spc' = [spc EXCEPT ![s] = "bound"]
    /\ UNCHANGED <<sport, neighbour, lockHolder, pidFile, cpc, cinfo,
                   stopEvent, wrotePid, stopSeen, clientLocked>>
    /\ UNCHANGED notLife

PortOf(pid) == IF \E p \in Ports : portOwner[p] = pid
               THEN CHOOSE p \in Ports : portOwner[p] = pid
               ELSE NoPort

\* pid_path.write_text, first half: open(path, "w") creates or truncates.
Opened == Partial

\* DisplayServer._write_pid_file: pid, port and session id of this server.
_write_pid_file(s) ==
    pidFile' = [pid |-> s, port |-> sport[s], session_id |-> SessionOf(s)]

\* DisplayServer.start -> _write_pid_file: the file is opened for writing ...
Start_OpenPid(s) ==
    /\ spc[s] = "bound"
    /\ pidFile' = Opened
    /\ spc' = [spc EXCEPT ![s] = "writing"]
    /\ UNCHANGED <<sport, neighbour, lockHolder, portOwner, cpc, cinfo,
                   stopEvent, wrotePid, everBound, stopSeen, clientLocked>>
    /\ UNCHANGED notLife

\* ... and the JSON text is written.
Start_WritePid(s) ==
    /\ spc[s] = "writing"
    /\ _write_pid_file(s)
    /\ wrotePid' = wrotePid \cup {s}
    /\ spc' = [spc EXCEPT ![s] = "written"]
    /\ UNCHANGED <<sport, neighbour, lockHolder, portOwner, cpc, cinfo,
                   stopEvent, everBound, stopSeen, clientLocked>>
    /\ UNCHANGED notLife

\* _run_standalone: finally: unlock_file(lock_fd); then stop_event.wait().
RunStandalone_Unlock(s) ==
    /\ spc[s] = "written"
    /\ lockHolder' = NoPid
    /\ spc' = [spc EXCEPT ![s] = "serving"]
    /\ UNCHANGED <<sport, neighbour, pidFile, portOwner, cpc, cinfo, stopEvent, wrotePid,
                   everBound, stopSeen, clientLocked>>
    /\ UNCHANGED notLife

\* SIGTERM / SIGINT from outside: _shutdown sets stop_event.
Signal(s) ==
    /\ spc[s] \in {"bound", "writing", "written", "serving"}
    /\ s \notin stopEvent
    /\ stopEvent' = stopEvent \cup {s}
    /\ stopSeen' = TRUE
    /\ UNCHANGED <<sport, neighbour, lockHolder, pidFile, portOwner, spc, cpc, cinfo,
                   wrotePid, everBound, clientLocked>>
    /\ UNCHANGED notLife

\* DisplayServer._remove_pid_file: unlink only when the file records this pid.
_remove_pid_file(s) ==
    pidFile' = IF pidFile.pid = s THEN NoFile ELSE pidFile

\* server.stop() after stop_event.wait(): the PID file goes first ...
Stop_RemovePid(s) ==
    /\ spc[s] = "serving"
    /\ s \in stopEvent
    /\ _remove_pid_file(s)
    /\ spc' = [spc EXCEPT ![s] = "stopping"]
    /\ UNCHANGED <<sport, neighbour, lockHolder, portOwner, cpc, cinfo, stopEvent, wrotePid,
                   everBound, stopSeen, clientLocked>>
    /\ UNCHANGED notLife

\* ... then the embedded server stops and the process ends.
Stop_Exit(s) ==
    /\ spc[s] = "stopping"
    /\ portOwner' = [p \in Ports |-> IF portOwner[p] = s THEN NoPid
                                     ELSE portOwner[p]]
    /\ spc' = [spc EXCEPT ![s] = "exited"]
    /\ UNCHANGED <<sport, neighbour, lockHolder, pidFile, cpc, cinfo, stopEvent, wrotePid,
                   everBound, stopSeen, clientLocked>>
    /\ UNCHANGED notLife

\* The server of another project starts: it binds the first free port of the
\* same range and writes the PID file of its own directory.
Neighbour_Start ==
    /\ neighbour = "none"
    /\ _find_port # NoPort
    /\ portOwner' = [portOwner EXCEPT ![_find_port] = Neighbour]
    /\ neighbour' = "serving"
    /\ UNCHANGED <<lockHolder, pidFile, spc, sport, cpc, cinfo, stopEvent,
                   wrotePid, everBound, stopSeen, clientLocked>>
    /\ UNCHANGED notLife

\* The other project's server, told to stop, removes its PID file and ends.
Neighbour_Exit ==
    /\ neighbour = "signalled"
    /\ portOwner' = [p \in Ports |-> IF portOwner[p] = Neighbour THEN NoPid
                                     ELSE portOwner[p]]
    /\ neighbour' = "none"
    /\ UNCHANGED <<lockHolder, pidFile, spc, sport, cpc, cinfo, stopEvent,
                   wrotePid, everBound, stopSeen, clientLocked>>
    /\ UNCHANGED notLife

\* ------------------------------------------------------------- the client
\* _discover_server, first half: no file -> None at once; otherwise the
\* record is read into the local `info`.
Discover_Read(c) ==
    /\ cpc[c] \in {"fast", "locked", "poll"}
    /\ cinfo[c] = Unread
    /\ cinfo' = [cinfo EXCEPT ![c] = pidFile]
    /\ UNCHANGED <<sport, neighbour, lockHolder, pidFile, portOwner, spc, cpc, stopEvent,
                   wrotePid, everBound, stopSeen, clientLocked>>
    /\ UNCHANGED notLife

\* _discover_server, second half: pid alive and health probe with the
\* recorded session id, else the PID file is unlinked as stale.
DiscoverOk(info) ==
    /\ info.pid # NoPid
    /\ is_pid_alive(info.pid)
    /\ health_check(info.port, info.session_id)

\* (mutant) a discovery that leaves a stale PID file where it is.
DiscoverUnlink_Keep(info) == pidFile

\* What _discover_server leaves of the PID file.
DiscoverUnlink(info) ==
    IF info.pid # NoPid /\ ~DiscoverOk(info) THEN NoFile ELSE pidFile

\* _ensure_started is entered: nothing connected yet, or a remote url to
\* re-validate (fast path).
EnsureStarted_Enter(c) ==
    /\ cpc[c] \in {"idle", "remote"}
    /\ cpc[c] = "idle" => NextClient(c)
    /\ Cardinality(IdleStarters) > Cardinality(StartingClients)
    /\ cpc' = [cpc EXCEPT ![c] = IF cpc[c] = "remote" THEN "fast" ELSE "want"]
    /\ cinfo' = [cinfo EXCEPT ![c] = Unread]
    /\ UNCHANGED <<sport, neighbour, lockHolder, pidFile, portOwner, spc, stopEvent,
                   wrotePid, everBound, stopSeen, clientLocked>>
    /\ UNCHANGED notLife

\* Fast path: the remote is still the discovered server -> return; else the
\* stale remote is cleared and the locked path is taken.
EnsureStarted_Fast(c) ==
    /\ cpc[c] = "fast"
    /\ cinfo[c] # Unread
    /\ pidFile' = DiscoverUnlink(cinfo[c])
    /\ cpc' = [cpc EXCEPT ![c] = IF DiscoverOk(cinfo[c]) THEN "remote"
                                 ELSE "want"]
    /\ cinfo' = [cinfo EXCEPT ![c] = Unread]
    /\ UNCHANGED <<sport, neighbour, lockHolder, portOwner, spc, stopEvent,
                   wrotePid, everBound, stopSeen, clientLocked>>
    /\ UNCHANGED notLife

\* fcntl.flock(lock_fd, LOCK_EX): blocks until the lock is free.
EnsureStarted_Lock(c) ==
    /\ cpc[c] = "want"
    /\ lockHolder = NoPid
    /\ lockHolder' = c
    /\ clientLocked' = TRUE
    /\ cpc' = [cpc EXCEPT ![c] = "locked"]
    /\ UNCHANGED <<sport, neighbour, pidFile, portOwner, spc, cinfo, stopEvent,
                   wrotePid, everBound, stopSeen>>
    /\ UNCHANGED notLife

\* _start_process: Popen of python -m vitrine.server.
_start_process(s) == spc' = [spc EXCEPT ![s] = "start"]

\* Inside the lock: adopt the discovered server, or spawn a standalone
\* process; either way the lock is released.
EnsureStarted_Locked(c) ==
    /\ cpc[c] = "locked"
    /\ cinfo[c] # Unread
    /\ pidFile' = DiscoverUnlink(cinfo[c])
    /\ lockHolder' = NoPid
    /\ cinfo' = [cinfo EXCEPT ![c] = Unread]
    /\ IF DiscoverOk(cinfo[c])
       THEN /\ cpc' = [cpc EXCEPT ![c] = "remote"]
            /\ UNCHANGED spc
       ELSE /\ cpc' = [cpc EXCEPT ![c] = "poll"]
            /\ \E s \in IdleStarters : NextStarter(s) /\ _start_process(s)
    /\ UNCHANGED <<sport, neighbour, portOwner, stopEvent, wrotePid, everBound, stopSeen,
                   clientLocked>>
    /\ UNCHANGED notLife

\* The 5 s poll: one more _discover_server; a server found is adopted.
EnsureStarted_Poll(c) ==
    /\ cpc[c] = "poll"
    /\ cinfo[c] # Unread
    /\ pidFile' = DiscoverUnlink(cinfo[c])
    /\ cpc' = [cpc EXCEPT ![c] = IF DiscoverOk(cinfo[c]) THEN "remote"
                                 ELSE "poll"]
    /\ cinfo' = [cinfo EXCEPT ![c] = Unread]
    /\ UNCHANGED <<sport, neighbour, lockHolder, portOwner, spc, stopEvent,
                   wrotePid, everBound, stopSeen, clientLocked>>
    /\ UNCHANGED notLife

\* The poll's deadline passes: the client starts an in-thread DisplayServer
\* (no lock, no PID file).
EnsureStarted_Fallback(c) ==
    /\ cpc[c] = "poll"
    /\ cinfo[c] = Unread
    /\ _find_port # NoPort
    /\ portOwner' = [portOwner EXCEPT ![_find_port] = c]
    /\ cpc' = [cpc EXCEPT ![c] = "inthread"]
    /\ UNCHANGED <<sport, neighbour, lockHolder, pidFile, spc, cinfo, stopEvent,
                   wrotePid, everBound, stopSeen, clientLocked>>
    /\ UNCHANGED notLife

\* ---------------------------------------------------------- blocking cards
\* Bounds: card ids and calls that wait on a card.
NumCards == 1
NumWaits == 2

Cards == 1..NumCards
Waits == 1..NumWaits
NoWait == 0
None == "None"
\* show() and wait_for() default to timeout=600; a caller may pass another.
DefaultTimeout == 600
Timeouts == {DefaultTimeout, 30}

\* The payload of the browser's `response` event.  A key the browser leaves
\* out is Absent.
Absent == "Absent"
Payloads ==
    { [action |-> "approve", message |-> "ok", selected |-> FALSE,
       form_values |-> "v1"],
      [action |-> Absent, message |-> None, selected |-> TRUE,
       form_values |-> Absent] }

\* dict.get(key, default)
Get(value, default) == IF value = Absent THEN default ELSE value

ArtifactId(c) == "resp-" \o ToString(c)

\* DisplayServer._build_summary: describes the selection, empty without one.
_build_summary(c, p) == IF p.selected THEN "1 row" ELSE ""

\* (mutant) the result carries the raw action key, without the default.
ResponseResult_NoDefault(c, p) ==
    [action |-> p.action, card_id |-> c, message |-> p.message,
     artifact_id |-> IF p.selected THEN ArtifactId(c) ELSE None,
     summary |-> _build_summary(c, p),
     values |-> Get(p.form_values, "{}")]

\* _handle_ws_event: the `result` dict built for a response event.
ResponseResult(c, p) ==
    [action |-> Get(p.action, "confirm"), card_id |-> c,
     message |-> p.message,
     artifact_id |-> IF p.selected THEN ArtifactId(c) ELSE None,
     summary |-> _build_summary(c, p),
     values |-> Get(p.form_values, "{}")]

\* (mutant) a timeout that reports an error action.
TimeoutResult_Error(c) == [action |-> "error", card_id |-> c]

\* wait_for_response / wait_for_response_sync: the timeout result.
TimeoutResult(c) == [action |-> "timeout", card_id |-> c]

NoResult == [action |-> None]

\* A card that is not in any study's index.
NoCard ==
    [stored |-> FALSE, response_requested |-> FALSE, timeout |-> DefaultTimeout,
     response_action |-> None, response_message |-> None,
     response_values |-> None, response_summary |-> None,
     response_artifact_id |-> None]

WaitInit ==
    /\ loop = FALSE
    /\ cards = [c \in Cards |-> NoCard]
    /\ pending = [c \in Cards |-> NoWait]
    /\ wpc = [w \in Waits |-> "idle"]
    /\ wcard = [w \in Waits |-> 1]
    /\ wtimeout = [w \in Waits |-> DefaultTimeout]
    /\ futState = [w \in Waits |-> "none"]
    /\ futResult = [w \in Waits |-> NoResult]
    /\ wret = [w \in Waits |-> NoResult]
    /\ pushed = {}
    /\ newest = [c \in Cards |-> NoWait]

\* Calls are numbered in the order they are made, and card ids in the order
\* they first appear (ids are uuids: any unused one is as good as another).
NextWait == IF \E w \in Waits : wpc[w] = "idle"
            THEN CHOOSE w \in Waits :
                    wpc[w] = "idle" /\ \A v \in Waits : wpc[v] = "idle" => w <= v
            ELSE NoWait
Known(c) == cards[c].stored \/ \E w \in Waits : wpc[w] # "idle" /\ wcard[w] = c
Usable(c) == Known(c) \/ \A d \in Cards : d < c => Known(d)

\* DisplayServer.start: the server thread sets self._loop.
Start_Loop ==
    /\ ~loop
    /\ loop' = TRUE
    /\ UNCHANGED <<cards, pending, wpc, wcard, wtimeout, futState, futResult,
                   wret, pushed, newest>>
    /\ UNCHANGED notWait

\* show(obj, wait=True, timeout=t): the card is stored with
\* response_requested=True and its timeout, pushed to the browser, and the
\* call goes on to _wait_for_card_response.
Show(w, c, t) ==
    /\ w = NextWait
    /\ Usable(c)
    /\ ~cards[c].stored
    /\ cards' = [cards EXCEPT ![c] = [NoCard EXCEPT !.stored = TRUE,
                                                    !.response_requested = TRUE,
                                                    !.timeout = t]]
    /\ pushed' = pushed \cup {[type |-> "display.add", card_id |-> c,
                               response_requested |-> TRUE]}
    /\ wpc' = [wpc EXCEPT ![w] = "calling"]
    /\ wcard' = [wcard EXCEPT ![w] = c]
    /\ UNCHANGED <<loop, pending, wtimeout, futState, futResult, wret, newest>>
    /\ UNCHANGED notWait

\* Python's `value or default`.
Or(value, default) == IF value \in {None, ""} THEN default ELSE value

\* The stored response as wait_for() hands it back.
StoredResponse(c) ==
    [action |-> cards[c].response_action, card_id |-> c,
     message |-> cards[c].response_message,
     artifact_id |-> cards[c].response_artifact_id,
     summary |-> Or(cards[c].response_summary, ""),
     values |-> Or(cards[c].response_values, "{}")]

\* (mutant) wait_for that never looks at the stored response.
AlreadyResponded_Never(c) == FALSE

\* wait_for: `if card.response_action is not None`.
AlreadyResponded(c) == cards[c].response_action # None

\* wait_for(card_id, timeout=t), first half: get_card, and the stored
\* response is returned at once when there is one.
WaitFor_Read(w, c, t) ==
    /\ w = NextWait
    /\ Usable(c)
    /\ cards[c].stored
    /\ wcard' = [wcard EXCEPT ![w] = c]
    /\ wtimeout' = [wtimeout EXCEPT ![w] = t]
    /\ IF AlreadyResponded(c)
       THEN /\ wpc' = [wpc EXCEPT ![w] = "answered"]
            /\ wret' = [wret EXCEPT ![w] = StoredResponse(c)]
       ELSE /\ wpc' = [wpc EXCEPT ![w] = "reattach"]
            /\ UNCHANGED wret
    /\ UNCHANGED <<loop, cards, pending, futState, futResult, pushed, newest>>
    /\ UNCHANGED notWait

\* wait_for: update_card(..., timeout=timeout) takes the call's argument.
ReattachTimeout(w) == wtimeout[w]

\* wait_for, second half: store.update_card(response_requested=True,
\* timeout=timeout), push the update, then block again.
WaitFor_Update(w) ==
    /\ wpc[w] = "reattach"
    /\ cards' = [cards EXCEPT ![wcard[w]].response_requested = TRUE,
                              ![wcard[w]].timeout = ReattachTimeout(w)]
    /\ pushed' = pushed \cup {[type |-> "display.update", card_id |-> wcard[w],
                               response_requested |-> TRUE]}
    /\ wpc' = [wpc EXCEPT ![w] = "calling"]
    /\ UNCHANGED <<loop, pending, wcard, wtimeout, futState, futResult, wret,
                   newest>>
    /\ UNCHANGED notWait

\* GET /api/response/{card_id} (_api_response): a remote caller waits on a
\* card id without touching the store; timeout defaults to 300 s and only
\* sets the deadline.
Api_Response(w, c) ==
    /\ w = NextWait
    /\ Usable(c)
    /\ loop
    /\ wpc' = [wpc EXCEPT ![w] = "calling"]
    /\ wcard' = [wcard EXCEPT ![w] = c]
    /\ UNCHANGED <<loop, cards, pending, wtimeout, futState, futResult, wret,
                   pushed, newest>>
    /\ UNCHANGED notWait

\* wait_for_response_sync with self._loop None returns the timeout result;
\* otherwise wait_for_response creates the future and registers it under the
\* card id, replacing whatever was registered.
WaitForResponse_Register(w) ==
    /\ wpc[w] = "calling"
    /\ IF ~loop
       THEN /\ wpc' = [wpc EXCEPT ![w] = "returned"]
            /\ wret' = [wret EXCEPT ![w] = TimeoutResult(wcard[w])]
            /\ UNCHANGED <<pending, futState, newest>>
       ELSE /\ wpc' = [wpc EXCEPT ![w] = "waiting"]
            /\ futState' = [futState EXCEPT ![w] = "pending"]
            /\ pending' = [pending EXCEPT ![wcard[w]] = w]
            /\ newest' = [newest EXCEPT ![wcard[w]] = w]
            /\ UNCHANGED wret
    /\ UNCHANGED <<loop, cards, wcard, wtimeout, futResult, pushed>>
    /\ UNCHANGED notWait

\* _handle_ws_event: update_card(response_requested=False, ...).
ClearRequested(c) == FALSE

\* _handle_ws_event, event_type "response": the response is persisted on the
\* card (when a store resolves for it) and the registered future, if not done,
\* gets the result.
HandleWsResponse(c, p) ==
    /\ loop
    /\ cards' = IF cards[c].stored
                THEN [cards EXCEPT
                        ![c].response_requested = ClearRequested(c),
                        ![c].response_action = ResponseResult(c, p).action,
                        ![c].response_message = p.message,
                        ![c].response_values = ResponseResult(c, p).values,
                        ![c].response_summary = ResponseResult(c, p).summary,
                        ![c].response_artifact_id =
                            ResponseResult(c, p).artifact_id]
                ELSE cards
    /\ IF pending[c] # NoWait /\ futState[pending[c]] = "pending"
       THEN /\ futState' = [futState EXCEPT ![pending[c]] = "result"]
            /\ futResult' = [futResult EXCEPT ![pending[c]] =
                                ResponseResult(c, p)]
       ELSE UNCHANGED <<futState, futResult>>
    /\ UNCHANGED <<loop, pending, wpc, wcard, wtimeout, wret, pushed, newest>>
    /\ UNCHANGED notWait

\* asyncio.wait_for: the deadline passes with the future still pending; the
\* future is cancelled and the waiter is scheduled to resume.
WaitForResponse_Deadline(w) ==
    /\ wpc[w] = "waiting"
    /\ futState[w] = "pending"
    /\ futState' = [futState EXCEPT ![w] = "cancelled"]
    /\ UNCHANGED <<loop, cards, pending, wpc, wcard, wtimeout, futResult,
                   wret, pushed, newest>>
    /\ UNCHANGED notWait

\* wait_for_response_sync: future.result(timeout + 1) gives up on a coroutine
\* that has not come back after its deadline; the except branch returns the
\* timeout result.
WaitForResponseSync_GiveUp(w) ==
    /\ wpc[w] = "waiting"
    /\ futState[w] = "cancelled"
    /\ wret[w] = NoResult
    /\ wret' = [wret EXCEPT ![w] = TimeoutResult(wcard[w])]
    /\ UNCHANGED <<loop, cards, pending, wpc, wcard, wtimeout, futState,
                   futResult, pushed, newest>>
    /\ UNCHANGED notWait

\* (mutant) an exit that leaves the entry in place.
PopPending_Kept(c) == pending

\* wait_for_response: finally: self._pending_responses.pop(card_id, None).
PopPending(c) == [pending EXCEPT ![c] = NoWait]

\* wait_for_response resumes: the future's result or, on TimeoutError, the
\* timeout result is returned, and the finally clause pops the card's entry.
WaitForResponse_Return(w) ==
    /\ wpc[w] = "waiting"
    /\ futState[w] \in {"result", "cancelled"}
    /\ wret' = [wret EXCEPT ![w] =
                    IF wret[w] # NoResult THEN wret[w]
                    ELSE IF futState[w] = "result" THEN futResult[w]
                    ELSE TimeoutResult(wcard[w])]
    /\ pending' = PopPending(wcard[w])
    /\ wpc' = [wpc EXCEPT ![w] = "returned"]
    /\ UNCHANGED <<loop, cards, wcard, wtimeout, futState, futResult, pushed,
                   newest>>
    /\ UNCHANGED notWait

WaitNext ==
    \/ Start_Loop
    \/ \E w \in Waits, c \in Cards, t \in Timeouts :
        \/ Show(w, c, t)
        \/ WaitFor_Read(w, c, t)
    \/ \E w \in Waits, c \in Cards : Api_Response(w, c)
    \/ \E w \in Waits :
        \/ WaitFor_Update(w)
        \/ WaitForResponse_Register(w)
        \/ WaitForResponse_Deadline(w)
        \/ WaitForResponseSync_GiveUp(w)
        \/ WaitForResponse_Return(w)
    \/ \E c \in Cards, p \in Payloads : HandleWsResponse(c, p)

\* ------------------------------------------------------- agent dispatches
\* Bounds: agent cards created in one server process, and cancellations
\* requested of running agents.
MaxDispatches == 6
MaxCancels == 1

\* dispatch.py: the global limit on running agents.
_MAX_CONCURRENT == 5

\* A DispatchInfo, as far as its lifecycle goes (card ids are fresh uuids, so
\* _dispatches is kept as the bag of its values):
\*   status  pending | running | completed | failed | cancelled
\*   proc    info.process: none | alive | signalled (alive, SIGTERM sent)
\*           | zombie (exited, not waited for)
\*           | reaped (poll()/wait() has collected the exit status)
\*   mon     info.monitor_task: none | read (in the readline loop) | wait
\*           (awaiting proc.wait) | sleep (in the timeout branch) | cancelling
\*           (cancel() requested, CancelledError not yet delivered) | done
DispatchInfo == [status |-> "pending", proc |-> "none", mon |-> "none"]

DispInit ==
    /\ dispatches = EmptyBag
    /\ capHit = FALSE
    /\ cancels = 0

Infos == DOMAIN dispatches

\* _dispatches with one info changed in place.
Replace(d, e) == (dispatches (-) SetToBag({d})) (+) SetToBag({e})

\* sum(1 for d in server._dispatches.values() if d.status == "running")
CountStatus(st) ==
    BagCardinality([d \in {x \in Infos : x.status = st} |-> dispatches[d]])

\* create_agent_card: a pending DispatchInfo under a fresh card id.
CreateAgentCard ==
    /\ BagCardinality(dispatches) < MaxDispatches
    /\ dispatches' = dispatches (+) SetToBag({DispatchInfo})
    /\ UNCHANGED <<capHit, cancels>>
    /\ UNCHANGED notDisp

\* (mutant) a limit check that lets one more through.
AtCapacity_OffByOne == CountStatus("running") > _MAX_CONCURRENT

\* run_agent: `if running >= _MAX_CONCURRENT: raise RuntimeError`.
AtCapacity == CountStatus("running") >= _MAX_CONCURRENT

\* run_agent: Popen, then info.status = "running".
Started(d) == [d EXCEPT !.proc = "alive", !.status = "running"]

\* server._dispatches.get(card_id) when there is no dispatch for the card.
NoInfo == [status |-> "none", proc |-> "none", mon |-> "none"]

\* run_agent, lines 381-399: the checks that come before anything is changed.
\* `cli` says whether shutil.which finds the agent CLI on PATH, `full`
\* whether _MAX_CONCURRENT dispatches are running.
RunValidation(d, cli, full) ==
    IF d.status = "none" THEN "ValueError: no agent card"
    ELSE IF d.status # "pending" THEN "RuntimeError: not pending"
    ELSE IF full THEN "RuntimeError: limit reached"
    ELSE IF ~cli THEN "ValueError: CLI not found"
    ELSE "ok"

\* (mutant) the process is spawned before the request is validated.
RunOutcome_SpawnFirst(d, cli, full) == Started(d)

\* What run_agent makes of the dispatch before its first await: a request
\* that fails a check raises with the DispatchInfo as it was.
RunOutcome(d, cli, full) ==
    IF RunValidation(d, cli, full) = "ok" THEN Started(d) ELSE d

\* run_agent up to its first await: a pending dispatch below the limit gets
\* its process and becomes running; a request that fails a check raises.
RunAgent(d, cli) ==
    /\ d \in Infos
    /\ dispatches' = Replace(d, RunOutcome(d, cli, AtCapacity))
    /\ capHit' = (capHit \/ RunValidation(d, cli, AtCapacity) =
                                "RuntimeError: limit reached")
    /\ UNCHANGED cancels
    /\ UNCHANGED notDisp

\* run_agent after its two awaits (card update, agent.started broadcast):
\* info.monitor_task = asyncio.create_task(_stream_monitor(info, server)).
RunAgent_StartMonitor(d) ==
    /\ d \in Infos
    /\ d.status # "pending"
    /\ d.mon = "none"
    /\ dispatches' = Replace(d, [d EXCEPT !.mon = "read"])
    /\ UNCHANGED <<capHit, cancels>>
    /\ UNCHANGED notDisp

\* Something in the server will still look at the process: the watchdog
\* probes the pid of a running dispatch, a monitor that is due or at work
\* reads its output and waits for it.
Observed(d) == d.status = "running" \/ d.mon \notin {"cancelling", "done"}

\* The agent process ends (by itself or on a signal).  The end of a process
\* nothing looks at any more is not a step.
ChildExit(d) ==
    /\ d \in Infos
    /\ d.proc \in {"alive", "signalled"}
    /\ Observed(d)
    /\ dispatches' = Replace(d, [d EXCEPT !.proc = "zombie"])
    /\ UNCHANGED <<capHit, cancels>>
    /\ UNCHANGED notDisp

\* Popen.poll: collects an exit status that is there.
Polled(proc) == IF proc = "zombie" THEN "reaped" ELSE proc

\* (mutant) a terminate that sends nothing.
Terminated_NoSignal(proc) == Polled(proc)

\* Popen.terminate: poll first; a process still alive gets SIGTERM.
Terminated(proc) == IF proc = "alive" THEN "signalled" ELSE Polled(proc)

\* _stream_monitor: readline returns b"" once the process has gone.
StreamMonitor_EOF(d) ==
    /\ d \in Infos
    /\ d.mon = "read"
    /\ d.proc \in {"zombie", "reaped"}
    /\ dispatches' = Replace(d, [d EXCEPT !.mon = "wait"])
    /\ UNCHANGED <<capHit, cancels>>
    /\ UNCHANGED notDisp

\* The exit statuses proc.wait may hand back.
ReturnCodes == {0, 1}

\* _stream_monitor: `if returncode == 0: completed, else: failed`.
\* (mutant) a monitor that leaves the status as it was when the process ends.
ExitStatus_Running(rc) == "running"

ExitStatus(rc) == IF rc = 0 THEN "completed" ELSE "failed"

\* _stream_monitor after the loop: returncode = proc.wait(), and the status is
\* set from it.
StreamMonitor_Finish(d, rc) ==
    /\ d \in Infos
    /\ d.mon = "wait"
    /\ d.proc \in {"zombie", "reaped"}
    /\ dispatches' = Replace(d, [d EXCEPT !.proc = "reaped",
                                          !.status = ExitStatus(rc),
                                          !.mon = "done"])
    /\ UNCHANGED <<capHit, cancels>>
    /\ UNCHANGED notDisp

\* _stream_monitor: no line for _DISPATCH_TIMEOUT seconds; proc.terminate()
\* and two seconds of sleep.
StreamMonitor_Timeout(d) ==
    /\ d \in Infos
    /\ d.mon = "read"
    /\ d.proc = "alive"
    /\ dispatches' = Replace(d, [d EXCEPT !.proc = Terminated(d.proc),
                                          !.mon = "sleep"])
    /\ UNCHANGED <<capHit, cancels>>
    /\ UNCHANGED notDisp

\* _stream_monitor, timeout branch after the sleep: poll (kill when still
\* alive) and info.status = "failed".
StreamMonitor_TimeoutFail(d) ==
    /\ d \in Infos
    /\ d.mon = "sleep"
    /\ dispatches' = Replace(d, [d EXCEPT !.proc = Polled(d.proc),
                                          !.status = "failed",
                                          !.mon = "done"])
    /\ UNCHANGED <<capHit, cancels>>
    /\ UNCHANGED notDisp

\* The monitor task resumes with CancelledError and ends (its finally clause
\* only cleans the workspace).
StreamMonitor_Cancelled(d) ==
    /\ d \in Infos
    /\ d.mon = "cancelling"
    /\ dispatches' = Replace(d, [d EXCEPT !.mon = "done"])
    /\ UNCHANGED <<capHit, cancels>>
    /\ UNCHANGED notDisp

\* cancel_agent: `if info is None or info.status != "running": return False`.
Cancellable(d) == d.status = "running"

\* cancel_agent: terminate the process, cancel the monitor task when there is
\* one, and info.status = "cancelled".
Cancelled(d) ==
    [d EXCEPT !.proc = Terminated(d.proc),
              !.status = "cancelled",
              !.mon = IF d.mon \in {"read", "wait", "sleep"}
                      THEN "cancelling" ELSE d.mon]

CancelAgent(d) ==
    /\ d \in Infos
    /\ Cancellable(d)
    /\ cancels < MaxCancels
    /\ cancels' = cancels + 1
    /\ dispatches' = Replace(d, Cancelled(d))
    /\ UNCHANGED capHit
    /\ UNCHANGED notDisp

\* dispatch._is_pid_alive: os.kill(pid, 0) succeeds until the exit status has
\* been collected.
_is_pid_alive(d) == d.proc \in {"alive", "signalled", "zombie"}

\* _dispatch_watchdog, lines 946-955: a dispatch is passed over unless it is
\* running, its pid is gone and its monitor task is absent or done.
WatchdogFails(d) ==
    /\ d.status = "running"
    /\ ~_is_pid_alive(d)
    /\ d.mon \in {"none", "done"}

\* _dispatch_watchdog, one dispatch of a pass.
DispatchWatchdog(d) ==
    /\ d \in Infos
    /\ d.status = "running"
    /\ IF WatchdogFails(d)
       THEN dispatches' = Replace(d, [d EXCEPT !.status = "failed"])
       ELSE UNCHANGED dispatches
    /\ UNCHANGED <<capHit, cancels>>
    /\ UNCHANGED notDisp

\* Every value a DispatchInfo can take (info.process is set together with
\* the running status), and those an operation may find itself at.
InfoSpace ==
    {d \in [status : {"pending", "running", "completed", "failed", "cancelled"},
            proc : {"none", "alive", "signalled", "zombie", "reaped"},
            mon : {"none", "read", "wait", "sleep", "cancelling", "done"}] :
        (d.status = "pending") <=> (d.proc = "none")}
WithStatus(st) == {d \in InfoSpace : d.status = st}
WithMonitor(m) == {d \in InfoSpace : d.mon = m}
PendingInfos == WithStatus("pending")
RunningInfos == WithStatus("running")
Unmonitored == WithMonitor("none")
Reading == WithMonitor("read")
Waiting == WithMonitor("wait")
Sleeping == WithMonitor("sleep")
Cancelling == WithMonitor("cancelling")
WithProcess == {d \in InfoSpace : d.proc \in {"alive", "signalled"}}

\* ------------------------------------------------------- one agent card
\* Bound: agent card ids followed from the request to the stored card.
NumAgents == 1

Agents == 1..NumAgents
\* A card id under which nothing was ever created.
NoAgent == 0
CardIds == Agents \cup {NoAgent}

\* The card in index.json: card_type, the preview's status, error and output,
\* and the deleted flag.  NoAgentCard: no card under the id.
NoAgentCard ==
    [card_type |-> "none", status |-> "none", error |-> None, output |-> "",
     deleted |-> FALSE]
\* create_agent_card: CardType.AGENT with _build_agent_preview(task, "pending").
PendingAgentCard ==
    [card_type |-> "agent", status |-> "pending", error |-> None,
     output |-> "", deleted |-> FALSE]
\* A card of another type (its preview has no status).
MarkdownCard ==
    [card_type |-> "markdown", status |-> "none", error |-> None,
     output |-> "", deleted |-> FALSE]

NoReq == [op |-> "none", card_id |-> NoAgent]
Ops == {"run", "delete", "ws_delete"}
Request(op, id) == [op |-> op, card_id |-> id]

Msg(type, id, error) == [type |-> type, card_id |-> id, error |-> error]

AgentInit ==
    /\ mem = [a \in Agents |-> NoInfo]
    /\ acc = [a \in Agents |-> ""]
    /\ store = [a \in Agents |-> NoAgentCard]
    /\ req = NoReq
    /\ reply = 0
    /\ sent = <<>>

InfoOf(id) == IF id \in Agents THEN mem[id] ELSE NoInfo
CardOf(id) == IF id \in Agents THEN store[id] ELSE NoAgentCard

\* Card ids are taken in order.
FreshId(a) == /\ store[a] = NoAgentCard
              /\ \A b \in Agents : b < a => store[b] # NoAgentCard

\* create_agent_card: the stored AGENT card, display.add, and the pending
\* DispatchInfo.
Agent_Create(a) ==
    /\ FreshId(a)
    /\ store' = [store EXCEPT ![a] = PendingAgentCard]
    /\ mem' = [mem EXCEPT ![a] = DispatchInfo]
    /\ sent' = <<Msg("display.add", a, None)>>
    /\ UNCHANGED <<acc, req, reply>>
    /\ UNCHANGED notAgent

\* show(): a card of another type is stored.
Show_Markdown(a) ==
    /\ FreshId(a)
    /\ store' = [store EXCEPT ![a] = MarkdownCard]
    /\ sent' = <<Msg("display.add", a, None)>>
    /\ UNCHANGED <<mem, acc, req, reply>>
    /\ UNCHANGED notAgent

\* The browser sends a request; one is handled at a time.
Browser_Request(op, id) ==
    /\ req = NoReq
    /\ req' = Request(op, id)
    /\ reply' = 0
    /\ UNCHANGED <<mem, acc, store, sent>>
    /\ UNCHANGED notAgent

\* sum(1 for d in _dispatches.values() if d.status == "running"), with
\* `others` running dispatches of the server besides the cards followed here.
RunningHere == Cardinality({a \in Agents : mem[a].status = "running"})
OthersRunning == 0..(_MAX_CONCURRENT - RunningHere)
Full(others) == RunningHere + others >= _MAX_CONCURRENT

\* _api_run_agent: RuntimeError -> 409, ValueError -> 400, else 200.
RunReply(v) ==
    IF v = "ok" THEN 200
    ELSE IF v \in {"RuntimeError: not pending", "RuntimeError: limit reached"}
    THEN 409 ELSE 400

\* POST /api/agents/{id}/run -> run_agent up to its first await: the checks,
\* Popen, status running, the card update and agent.started.
Api_RunAgent(id, cli, others) ==
    /\ req = Request("run", id)
    /\ others \in OthersRunning
    /\ LET d == InfoOf(id)
           v == RunValidation(d, cli, Full(others))
       IN  /\ mem' = IF id \in Agents
                     THEN [mem EXCEPT ![id] = RunOutcome(d, cli, Full(others))]
                     ELSE mem
           /\ store' = IF v = "ok"
                       THEN [store EXCEPT ![id].status = "running",
                                          ![id].output = "*Agent starting...*"]
                       ELSE store
           /\ sent' = IF v = "ok"
                      THEN <<Msg("display.update", id, None),
                             Msg("agent.started", id, None)>>
                      ELSE <<>>
           /\ reply' = RunReply(v)
    /\ req' = NoReq
    /\ UNCHANGED acc
    /\ UNCHANGED notAgent

\* run_agent after its awaits: the monitor task is created.
Agent_StartMonitor(a) ==
    /\ mem[a].status \notin {"none", "pending"}
    /\ mem[a].mon = "none"
    /\ mem' = [mem EXCEPT ![a].mon = "read"]
    /\ UNCHANGED <<acc, store, req, reply, sent>>
    /\ UNCHANGED notAgent

\* _stream_monitor: a line of text arrives; accumulated_output grows and the
\* card's output is updated.
Agent_Line(a) ==
    /\ mem[a].mon = "read"
    /\ mem[a].proc \in {"alive", "signalled"}
    /\ acc[a] = ""
    /\ acc' = [acc EXCEPT ![a] = "line"]
    /\ store' = [store EXCEPT ![a].output = "line"]
    /\ sent' = <<Msg("display.update", a, None)>>
    /\ UNCHANGED <<mem, req, reply>>
    /\ UNCHANGED notAgent

\* The agent process ends.
Agent_ChildExit(a) ==
    /\ mem[a].proc \in {"alive", "signalled"}
    /\ Observed(mem[a])
    /\ mem' = [mem EXCEPT ![a].proc = "zombie"]
    /\ UNCHANGED <<acc, store, req, reply, sent>>
    /\ UNCHANGED notAgent

\* _stream_monitor: readline returns b"".
Agent_EOF(a) ==
    /\ mem[a].mon = "read"
    /\ mem[a].proc \in {"zombie", "reaped"}
    /\ mem' = [mem EXCEPT ![a].mon = "wait"]
    /\ UNCHANGED <<acc, store, req, reply, sent>>
    /\ UNCHANGED notAgent

\* loop.run_in_executor(None, proc.wait): the executor thread collects the
\* exit status; the monitor task has not resumed yet.
Agent_ExecutorWait(a) ==
    /\ mem[a].mon = "wait"
    /\ mem[a].proc = "zombie"
    /\ mem' = [mem EXCEPT ![a].proc = "reaped"]
    /\ UNCHANGED <<acc, store, req, reply, sent>>
    /\ UNCHANGED notAgent

ExitError(rc) == IF rc = 0 THEN None
                 ELSE "Process exited with code " \o ToString(rc)
\* _stream_monitor: the card's output when the process has ended.
ExitOutput(rc, text) ==
    IF rc = 0
    THEN (IF text = "" THEN "*Agent completed with no output.*" ELSE text)
    ELSE text \o "\n\n---\n**Error:** " \o ExitError(rc)

\* _stream_monitor resumes with the return code: status, card and broadcast.
Agent_Finish(a, rc) ==
    /\ mem[a].mon = "wait"
    /\ mem[a].proc = "reaped"
    /\ mem' = [mem EXCEPT ![a].status = ExitStatus(rc), ![a].mon = "done"]
    /\ store' = [store EXCEPT ![a].status = ExitStatus(rc),
                              ![a].error = IF rc = 0 THEN @ ELSE ExitError(rc),
                              ![a].output = ExitOutput(rc, acc[a])]
    /\ sent' = <<Msg("display.update", a, None),
                 Msg("agent." \o ExitStatus(rc), a, ExitError(rc))>>
    /\ UNCHANGED <<acc, req, reply>>
    /\ UNCHANGED notAgent

\* _stream_monitor: asyncio.TimeoutError; proc.terminate() and the sleep.
Agent_Timeout(a) ==
    /\ mem[a].mon = "read"
    /\ mem[a].proc = "alive"
    /\ mem' = [mem EXCEPT ![a].proc = Terminated(@), ![a].mon = "sleep"]
    /\ UNCHANGED <<acc, store, req, reply, sent>>
    /\ UNCHANGED notAgent

TimeoutError == "Timed out after 1800s"

\* _stream_monitor, timeout branch after the sleep.
Agent_TimeoutFail(a) ==
    /\ mem[a].mon = "sleep"
    /\ mem' = [mem EXCEPT ![a].proc = Polled(@), ![a].status = "failed",
                          ![a].mon = "done"]
    /\ store' = [store EXCEPT ![a].status = "failed",
                              ![a].error = TimeoutError,
                              ![a].output = acc[a] \o "\n\n---\n**Timed out**"]
    /\ sent' = <<Msg("display.update", a, None),
                 Msg("agent.failed", a, TimeoutError)>>
    /\ UNCHANGED <<acc, req, reply>>
    /\ UNCHANGED notAgent

\* The monitor task resumes with CancelledError and ends.
Agent_MonitorCancelled(a) ==
    /\ mem[a].mon = "cancelling"
    /\ mem' = [mem EXCEPT ![a].mon = "done"]
    /\ UNCHANGED <<acc, store, req, reply, sent>>
    /\ UNCHANGED notAgent

\* (mutant) a cancellation that drops the output accumulated so far.
CancelOutput_Dropped(text) == "*Cancelled by user.*"

\* cancel_agent: the preserved output with the cancellation note.
CancelOutput(text) ==
    IF text = "" THEN "*Cancelled by user.*"
    ELSE text \o "\n\n---\n*Cancelled by user.*"

CancelMessages(id) ==
    <<Msg("display.update", id, None),
      Msg("agent.failed", id, "Cancelled by user")>>

\* cancel_agent when the dispatch is running: the card is stored as failed.
CancelledCard(card, text) ==
    [card EXCEPT !.status = "failed", !.output = CancelOutput(text),
                 !.error = "Cancelled by user"]

\* (mutant) a force-fail that passes over pending cards.
ForceFailable_RunningOnly(card) ==
    card.card_type = "agent" /\ card.status = "running"

\* The force-fail of DELETE /api/agents/{id} for a card without a running
\* dispatch.
ForceFailable(card) ==
    card.card_type = "agent" /\ card.status \in {"running", "pending"}
ForceFailed(card) ==
    [card EXCEPT !.status = "failed",
                 !.error = "Agent process no longer running"]

\* DELETE /api/agents/{id}: cancel_agent; when that returns False, the stored
\* card is looked up and force-failed, else 404.
Api_DeleteAgent(id) ==
    /\ req = Request("delete", id)
    /\ req' = NoReq
    /\ IF Cancellable(InfoOf(id))
       THEN /\ mem' = [mem EXCEPT ![id] = Cancelled(@)]
            /\ store' = [store EXCEPT ![id] = CancelledCard(@, acc[id])]
            /\ sent' = CancelMessages(id)
            /\ reply' = 200
       ELSE IF ForceFailable(CardOf(id))
       THEN /\ store' = [store EXCEPT ![id] = ForceFailed(@)]
            /\ sent' = <<Msg("display.update", id, None)>>
            /\ reply' = 200
            /\ UNCHANGED mem
       ELSE /\ reply' = 404
            /\ sent' = <<>>
            /\ UNCHANGED <<mem, store>>
    /\ UNCHANGED acc
    /\ UNCHANGED notAgent

\* The WebSocket `delete` event: a dispatch of the card is cancelled, then the
\* card is stored as deleted.
Ws_Delete(id) ==
    /\ req = Request("ws_delete", id)
    /\ req' = NoReq
    /\ LET hit == InfoOf(id) # NoInfo /\ Cancellable(InfoOf(id))
           there == CardOf(id) # NoAgentCard
       IN  /\ mem' = IF hit THEN [mem EXCEPT ![id] = Cancelled(@)] ELSE mem
           /\ store' =
                IF ~there THEN store
                ELSE [store EXCEPT
                        ![id] = [(IF hit THEN CancelledCard(@, acc[id]) ELSE @)
                                 EXCEPT !.deleted = TRUE]]
           /\ sent' = (IF hit THEN CancelMessages(id) ELSE <<>>)
                      \o (IF there THEN <<Msg("display.update", id, None)>>
                          ELSE <<>>)
    /\ UNCHANGED <<acc, reply>>
    /\ UNCHANGED notAgent

\* _dispatch_watchdog, one dispatch of a pass.
Agent_Watchdog(a) ==
    /\ mem[a].status = "running"
    /\ IF WatchdogFails(mem[a])
       THEN /\ mem' = [mem EXCEPT ![a].status = "failed"]
            /\ store' = [store EXCEPT ![a].status = "failed",
                                      ![a].error = "Process exited unexpectedly"]
            /\ sent' = <<Msg("display.update", a, None),
                         Msg("agent.failed", a, "Process exited unexpectedly")>>
       ELSE UNCHANGED <<mem, store, sent>>
    /\ UNCHANGED <<acc, req, reply>>
    /\ UNCHANGED notAgent

\* (mutant) a reconciliation that fails every agent card.
Reconciled_All(card) ==
    IF card.card_type = "agent"
    THEN [card EXCEPT !.status = "failed",
                      !.error = "Server restarted while agent was running"]
    ELSE card

\* reconcile_orphaned_agents, one card: an AGENT card stored as running (with
\* no in-memory dispatch) is stored as failed.
Reconciled(card) ==
    IF card.card_type = "agent" /\ card.status = "running"
    THEN [card EXCEPT !.status = "failed",
                      !.error = "Server restarted while agent was running"]
    ELSE card

\* The server process ends (stop() or a crash) and a new one is started on
\* the directory: _dispatches starts empty and DisplayServer.__init__ runs
\* reconcile_orphaned_agents over the stored cards.
Server_Restart ==
    /\ mem' = [a \in Agents |-> NoInfo]
    /\ acc' = [a \in Agents |-> ""]
    /\ store' = [a \in Agents |-> Reconciled(store[a])]
    /\ req' = NoReq
    /\ reply' = 0
    /\ sent' = <<>>
    /\ UNCHANGED notAgent

AgentSteps ==
    \/ \E a \in Agents :
        \/ Agent_Create(a)
        \/ Show_Markdown(a)
        \/ Agent_StartMonitor(a)
        \/ Agent_Line(a)
        \/ Agent_ChildExit(a)
        \/ Agent_EOF(a)
        \/ Agent_ExecutorWait(a)
        \/ Agent_Timeout(a)
        \/ Agent_TimeoutFail(a)
        \/ Agent_MonitorCancelled(a)
        \/ Agent_Watchdog(a)
    \/ \E a \in Agents, rc \in ReturnCodes : Agent_Finish(a, rc)
    \/ \E op \in Ops, id \in CardIds : Browser_Request(op, id)
    \/ \E id \in CardIds, cli \in BOOLEAN, others \in 0.._MAX_CONCURRENT :
        Api_RunAgent(id, cli, others)
    \/ \E id \in CardIds :
        \/ Api_DeleteAgent(id)
        \/ Ws_Delete(id)

AgentNext ==
    \/ AgentSteps
    \/ Server_Restart

\* The event loop resumes a monitor task that can run: the steps of
\* _stream_monitor that wait on nothing but the loop itself.
MonitorRuns(a) ==
    \/ Agent_StartMonitor(a)
    \/ Agent_EOF(a)
    \/ Agent_ExecutorWait(a)
    \/ Agent_TimeoutFail(a)
    \/ Agent_MonitorCancelled(a)
    \/ \E rc \in ReturnCodes : Agent_Finish(a, rc)

\* The child process exits or the readline timeout of _DISPATCH_TIMEOUT
\* seconds elapses.
ChildEnds(a) == Agent_ChildExit(a) \/ Agent_Timeout(a)

AgentFairness ==
    \A a \in Agents : WF_vars(MonitorRuns(a)) /\ WF_vars(ChildEnds(a))

\* ------------------------------------------------------------ server stop
\* DisplayServer.stop() in the thread that calls it, next to the event loop
\* thread (still serving until uvicorn sees should_exit) and the
\* threading.Timer threads of the selection debounce.

\* Selection maps the browser can report; 0 is the empty map of __init__.
NumSelections == 2
SelMaps == 0..(NumSelections - 1)

StopInit ==
    /\ stopPc = "serving"
    /\ watchdog = "unset"
    /\ liveAgent = FALSE
    /\ srvPid = "own"
    /\ selections = 0
    /\ selFile = 0
    /\ timerArmed = FALSE
    /\ inflight = {}
    /\ loopAlive = TRUE
    /\ shouldExit = FALSE
    /\ stopLog = <<>>

\* start(): call_soon_threadsafe(lambda: setattr(self, "_watchdog_task", ...));
\* the loop thread runs the lambda some time after start() has returned.
Loop_CreateWatchdog ==
    /\ loopAlive
    /\ watchdog = "unset"
    /\ watchdog' = "running"
    /\ UNCHANGED <<stopPc, liveAgent, srvPid, selections, selFile, timerArmed,
                   inflight, loopAlive, shouldExit, stopLog>>
    /\ UNCHANGED notStop

\* run_agent on the loop thread: a dispatch with status "running".
Loop_RunAgent ==
    /\ loopAlive
    /\ ~liveAgent
    /\ liveAgent' = TRUE
    /\ UNCHANGED <<stopPc, watchdog, srvPid, selections, selFile, timerArmed,
                   inflight, loopAlive, shouldExit, stopLog>>
    /\ UNCHANGED notStop

\* _handle_ws_event, event_type "selection": store the indices, then
\* _schedule_save_selections cancels the pending timer and starts a new one.
Ws_Selection(m) ==
    /\ loopAlive
    /\ selections' = m
    /\ timerArmed' = TRUE
    /\ UNCHANGED <<stopPc, watchdog, liveAgent, srvPid, selFile, inflight,
                   loopAlive, shouldExit, stopLog>>
    /\ UNCHANGED notStop

\* The timer thread, 1 s after the last _schedule_save_selections:
\* _save_selections copies the map under the lock ...
Timer_Fire ==
    /\ timerArmed
    /\ timerArmed' = FALSE
    /\ inflight' = inflight \cup {selections}
    /\ UNCHANGED <<stopPc, watchdog, liveAgent, srvPid, selections, selFile,
                   loopAlive, shouldExit, stopLog>>
    /\ UNCHANGED notStop

\* ... and writes the copy to selections.json outside the lock.
Timer_Write(m) ==
    /\ m \in inflight
    /\ selFile' = m
    /\ inflight' = inflight \ {m}
    /\ UNCHANGED <<stopPc, watchdog, liveAgent, srvPid, selections, timerArmed,
                   loopAlive, shouldExit, stopLog>>
    /\ UNCHANGED notStop

\* _api_shutdown on the loop thread, for an authorized POST /api/shutdown:
\* self._server.should_exit = True, and nothing else.
Loop_Shutdown ==
    /\ loopAlive
    /\ ~shouldExit
    /\ shouldExit' = TRUE
    /\ UNCHANGED <<stopPc, watchdog, liveAgent, srvPid, selections, selFile,
                   timerArmed, inflight, loopAlive, stopLog>>
    /\ UNCHANGED notStop

\* uvicorn's serve() returns once should_exit is set; _run ends with it.
Loop_Exit ==
    /\ loopAlive
    /\ shouldExit
    /\ loopAlive' = FALSE
    /\ UNCHANGED <<stopPc, watchdog, liveAgent, srvPid, selections, selFile,
                   timerArmed, inflight, shouldExit, stopLog>>
    /\ UNCHANGED notStop

\* Another server process of the directory writes .server.json (_write_pid_file
\* does not look at what is there).
Other_WritePid ==
    /\ srvPid # "foreign"
    /\ srvPid' = "foreign"
    /\ UNCHANGED <<stopPc, watchdog, liveAgent, selections, selFile, timerArmed,
                   inflight, loopAlive, shouldExit, stopLog>>
    /\ UNCHANGED notStop

\* The statements of stop() in the order of the source: what runs after what.
StopSequel_ExitFirst(step) ==
    CASE step = "cancel_watchdog" -> "should_exit"
      [] step = "should_exit" -> "cleanup_dispatches"
      [] step = "cleanup_dispatches" -> "remove_pid_file"
      [] step = "remove_pid_file" -> "cancel_timer"
      [] step = "cancel_timer" -> "save_selections"
      [] step = "save_selections" -> "join"
      [] step = "join" -> "returned"

StopSequel(step) ==
    CASE step = "cancel_watchdog" -> "cleanup_dispatches"
      [] step = "cleanup_dispatches" -> "remove_pid_file"
      [] step = "remove_pid_file" -> "cancel_timer"
      [] step = "cancel_timer" -> "save_selections"
      [] step = "save_selections" -> "should_exit"
      [] step = "should_exit" -> "join"
      [] step = "join" -> "returned"

\* stop_event.wait() returns (or _stop_server / atexit calls stop()).
ServerStop_Call ==
    /\ stopPc = "serving"
    /\ stopPc' = "cancel_watchdog"
    /\ UNCHANGED <<watchdog, liveAgent, srvPid, selections, selFile, timerArmed,
                   inflight, loopAlive, shouldExit, stopLog>>
    /\ UNCHANGED notStop

\* if self._watchdog_task: cancel it.
ServerStop_CancelWatchdog ==
    /\ stopPc = "cancel_watchdog"
    /\ stopPc' = StopSequel(stopPc)
    /\ watchdog' = IF watchdog = "running" THEN "cancelled" ELSE watchdog
    /\ stopLog' = IF watchdog = "running"
                  THEN Append(stopLog, "cancel_watchdog") ELSE stopLog
    /\ UNCHANGED <<liveAgent, srvPid, selections, selFile, timerArmed,
                   inflight, loopAlive, shouldExit>>
    /\ UNCHANGED notStop

\* cleanup_dispatches: terminate every running dispatch, clear _dispatches.
ServerStop_CleanupDispatches ==
    /\ stopPc = "cleanup_dispatches"
    /\ stopPc' = StopSequel(stopPc)
    /\ liveAgent' = FALSE
    /\ stopLog' = Append(stopLog, "cleanup_dispatches")
    /\ UNCHANGED <<watchdog, srvPid, selections, selFile, timerArmed,
                   inflight, loopAlive, shouldExit>>
    /\ UNCHANGED notStop

\* _remove_pid_file on the file as it is now.
RemoveOwn(file) == IF file = "own" THEN "absent" ELSE file

ServerStop_RemovePidFile ==
    /\ stopPc = "remove_pid_file"
    /\ stopPc' = StopSequel(stopPc)
    /\ srvPid' = RemoveOwn(srvPid)
    /\ stopLog' = Append(stopLog, "remove_pid_file")
    /\ UNCHANGED <<watchdog, liveAgent, selections, selFile, timerArmed,
                   inflight, loopAlive, shouldExit>>
    /\ UNCHANGED notStop

\* self._selection_save_timer.cancel(): a timer that has fired is not stopped.
ServerStop_CancelTimer ==
    /\ stopPc = "cancel_timer"
    /\ stopPc' = StopSequel(stopPc)
    /\ timerArmed' = FALSE
    /\ UNCHANGED <<watchdog, liveAgent, srvPid, selections, selFile,
                   inflight, loopAlive, shouldExit, stopLog>>
    /\ UNCHANGED notStop

\* self._save_selections() in the stopping thread.
ServerStop_SaveSelections ==
    /\ stopPc = "save_selections"
    /\ stopPc' = StopSequel(stopPc)
    /\ selFile' = selections
    /\ stopLog' = Append(stopLog, "flush_selections")
    /\ UNCHANGED <<watchdog, liveAgent, srvPid, selections, timerArmed,
                   inflight, loopAlive, shouldExit>>
    /\ UNCHANGED notStop

\* self._server.should_exit = True
ServerStop_ShouldExit ==
    /\ stopPc = "should_exit"
    /\ stopPc' = StopSequel(stopPc)
    /\ shouldExit' = TRUE
    /\ stopLog' = Append(stopLog, "should_exit")
    /\ UNCHANGED <<watchdog, liveAgent, srvPid, selections, selFile,
                   timerArmed, inflight, loopAlive>>
    /\ UNCHANGED notStop

\* self._thread.join(timeout=3): returns when the loop thread has ended or
\* after three seconds, whichever is first.
ServerStop_Join ==
    /\ stopPc = "join"
    /\ stopPc' = StopSequel(stopPc)
    /\ stopLog' = Append(stopLog, "join")
    /\ UNCHANGED <<watchdog, liveAgent, srvPid, selections, selFile,
                   timerArmed, inflight, loopAlive, shouldExit>>
    /\ UNCHANGED notStop

StopNext ==
    \/ Loop_CreateWatchdog
    \/ Loop_RunAgent
    \/ \E m \in SelMaps : Ws_Selection(m)
    \/ Timer_Fire
    \/ \E m \in SelMaps : Timer_Write(m)
    \/ Loop_Shutdown
    \/ Loop_Exit
    \/ Other_WritePid
    \/ ServerStop_Call
    \/ ServerStop_CancelWatchdog
    \/ ServerStop_CleanupDispatches
    \/ ServerStop_RemovePidFile
    \/ ServerStop_CancelTimer
    \/ ServerStop_SaveSelections
    \/ ServerStop_ShouldExit
    \/ ServerStop_Join

\* A thread that is inside stop() runs on to its return.
StopRuns ==
    \/ ServerStop_CancelWatchdog
    \/ ServerStop_CleanupDispatches
    \/ ServerStop_RemovePidFile
    \/ ServerStop_CancelTimer
    \/ ServerStop_SaveSelections
    \/ ServerStop_ShouldExit
    \/ ServerStop_Join

\* Threads that can run do run: the loop thread leaves serve() once
\* should_exit is set, a timer thread writes its copy, stop() runs to its end.
\* Nothing makes stop_event.wait() return: a signal may never be sent.
StopFairness ==
    /\ WF_vars(Loop_Exit)
    /\ WF_vars(\E m \in SelMaps : Timer_Write(m))
    /\ WF_vars(StopRuns)

\* ------------------------------------------------------- WebSocket replay
\* One browser socket of _ws_endpoint, next to the handlers that broadcast
\* on the same event loop.  Cards are numbered in the order they are pushed,
\* which is the order list_all_cards sorts them in (by timestamp).
NumReplayCards == 3
ReplayCards == 1..NumReplayCards

\* What the socket is sent.  "replay" is not part of the message: it records
\* whether _ws_endpoint's replay loop or _broadcast sent it.
WsMsg(type, c, deleted, replay) ==
    [type |-> type, card |-> c, deleted |-> deleted, replay |-> replay]

ReplayDone == WsMsg("display.replay_done", 0, FALSE, TRUE)

ReplayInit ==
    /\ rcards = [c \in ReplayCards |-> "absent"]
    /\ wsPc = "closed"
    /\ wsQueue = {}
    /\ wsLog = <<>>

\* ArtifactStore.list_cards / StudyManager.list_all_cards: every record of
\* index.json, whatever its "deleted" field says.
list_cards ==
    {[card |-> c, deleted |-> rcards[c] = "deleted"] :
        c \in {b \in ReplayCards : rcards[b] # "absent"}}

\* self._connections while the socket is between accept and disconnect.
Connected == wsPc # "closed"

\* _broadcast: send_json to every socket in self._connections.
_broadcast(msg) ==
    wsLog' = IF Connected THEN Append(wsLog, msg) ELSE wsLog

\* The client has stored the card; POST /api/command {type: "card"} makes the
\* server broadcast display.add.
Api_CommandCard(c) ==
    /\ rcards[c] = "absent"
    /\ \A b \in ReplayCards : b < c => rcards[b] # "absent"
    /\ rcards' = [rcards EXCEPT ![c] = "stored"]
    /\ _broadcast(WsMsg("display.add", c, FALSE, FALSE))
    /\ UNCHANGED <<wsPc, wsQueue>>
    /\ UNCHANGED notReplay

\* A "delete" event from a browser tab: update_card(deleted=True), then
\* broadcast display.update.
Ws_DeleteEvent(c) ==
    /\ rcards[c] = "stored"
    /\ rcards' = [rcards EXCEPT ![c] = "deleted"]
    /\ _broadcast(WsMsg("display.update", c, TRUE, FALSE))
    /\ UNCHANGED <<wsPc, wsQueue>>
    /\ UNCHANGED notReplay

\* The listed card that is serialized first: cards go out in list order.
FirstOf(queue) == CHOOSE d \in queue : \A e \in queue : d.card <= e.card

ReplayAdd(d) == WsMsg("display.add", d.card, d.deleted, TRUE)

\* _ws_endpoint up to its first suspension: accept, append to _connections,
\* list the cards and write the first message.  Nothing is awaited between
\* the append and the listing, and the first send_json finds the socket
\* writable.
Ws_Connect ==
    /\ wsPc = "closed"
    /\ wsPc' = IF list_cards = {} THEN "open" ELSE "replaying"
    /\ wsLog' = IF list_cards = {} THEN <<ReplayDone>>
                 ELSE <<ReplayAdd(FirstOf(list_cards))>>
    /\ wsQueue' = IF list_cards = {} THEN {}
                   ELSE list_cards \ {FirstOf(list_cards)}
    /\ UNCHANGED rcards
    /\ UNCHANGED notReplay

\* The card the replay loop serializes next: the record as listed at connect.
NextReplayed == FirstOf(wsQueue)

\* for card in cards: await ws.send_json({"type": "display.add", ...}); the
\* event loop may have run other handlers while the send before was awaited.
Ws_ReplaySend ==
    /\ wsPc = "replaying"
    /\ wsQueue # {}
    /\ wsLog' = Append(wsLog, ReplayAdd(NextReplayed))
    /\ wsQueue' = wsQueue \ {NextReplayed}
    /\ UNCHANGED <<rcards, wsPc>>
    /\ UNCHANGED notReplay

\* await ws.send_json({"type": "display.replay_done"}), then the receive loop.
Ws_ReplayDone ==
    /\ wsPc = "replaying"
    /\ wsQueue = {}
    /\ wsLog' = Append(wsLog, ReplayDone)
    /\ wsPc' = "open"
    /\ UNCHANGED <<rcards, wsQueue>>
    /\ UNCHANGED notReplay

\* WebSocketDisconnect in the receive loop: the socket leaves _connections.
Ws_Disconnect ==
    /\ wsPc = "open"
    /\ wsPc' = "closed"
    /\ wsLog' = <<>>
    /\ UNCHANGED <<rcards, wsQueue>>
    /\ UNCHANGED notReplay

ReplayNext ==
    \/ \E c \in ReplayCards :
        \/ Api_CommandCard(c)
        \/ Ws_DeleteEvent(c)
    \/ Ws_Connect
    \/ Ws_ReplaySend
    \/ Ws_ReplayDone
    \/ Ws_Disconnect

\* ----------------------------------------------------------- study manager
\* One StudyManager over <dir>/.vitrine/studies: the directories with their
\* meta.json and index.json on disk, and the manager's three dictionaries.

\* Seconds of the clock that _make_study_dir_name reads.
MaxTime == 2
\* Cards that show() may store.
NumStudyCards == 2
\* Calls of delete_study that are followed.
MaxDeletes == 1

Times == 1..MaxTime
StudyCards == 1..NumStudyCards
\* Labels a caller passes; Blank is a whitespace-only label.
StudyLabels == {"A", "a", "b"}
Blank == " "

\* _sanitize_label on the labels above: lower case, runs of other characters
\* to "-", hyphens stripped from the ends, "unnamed" when nothing is left.
_sanitize_label(label) ==
    CASE label = "A" -> "a"
      [] label = "a" -> "a"
      [] label = "b" -> "b"
      [] label = Blank -> "unnamed"

Slugs == {_sanitize_label(l) : l \in StudyLabels}
\* A directory name "{date}_{time}_{slug}" as <<second, slug>>.
StudyDirs == Times \X Slugs
NoDir == <<0, "none">>
\* Where the record of a card is once its directory has been removed.
Gone == <<0, "gone">>

\* _make_study_dir_name(label) at second t.
_make_study_dir_name(t, label) == <<t, _sanitize_label(label)>>

\* The directory name as a string, which is the label _discover_studies and
\* refresh fall back to when meta.json has no "label".
DirLabel(d) == ToString(d[1]) \o "_" \o d[2]
AllLabels == StudyLabels \cup {DirLabel(d) : d \in StudyDirs}
\* meta[d]: no such directory / a meta.json without "label" (the one
\* ArtifactStore.__init__ writes when there is none).
NoLabel == ""
Unlabelled == "?"

NoRecord == [dir |-> NoDir, study |-> NoLabel]

StudyInit ==
    /\ now = 1
    /\ meta = [d \in StudyDirs |-> NoLabel]
    /\ diskCards = [c \in StudyCards |-> NoRecord]
    /\ _stores = {}
    /\ _label_to_dir = [l \in AllLabels |-> NoDir]
    /\ _card_index = [c \in StudyCards |-> NoDir]
    /\ deletes = 0

Exists(d) == d \in StudyDirs /\ meta[d] # NoLabel
OnDisk == {d \in StudyDirs : Exists(d)}
\* The records of <d>/index.json.
IndexOf(d) == {c \in StudyCards : diskCards[c].dir = d}
\* meta.get("label", dir_name)
LabelOf(d) == IF meta[d] = Unlabelled THEN DirLabel(d) ELSE meta[d]
\* sorted(iterdir()): directory names compare as strings, second then slug.
DirBefore(d, e) == d[1] < e[1] \/ (d[1] = e[1] /\ d[2] = "a" /\ e[2] = "b")

\* StudyManager.list_all_cards(study=label)
list_all_cards(label) ==
    IF _label_to_dir[label] = NoDir \/ _label_to_dir[label] \notin _stores
    THEN {}
    ELSE IndexOf(_label_to_dir[label])

\* StudyManager.list_all_cards(): the cards of every label's store.
list_every_card == UNION {list_all_cards(l) : l \in AllLabels}

\* StudyManager.get_store_for_card: the directory of the store, or NoDir.
get_store_for_card(c) ==
    IF _card_index[c] # NoDir /\ _card_index[c] \in _stores
    THEN _card_index[c] ELSE NoDir

\* A directory name in use, on disk or in the manager, carries this second.
Stamped(t) ==
    \E d \in StudyDirs :
        /\ d[1] = t
        /\ \/ Exists(d)
           \/ d \in _stores
           \/ \E l \in AllLabels : _label_to_dir[l] = d
           \/ \E c \in StudyCards : _card_index[c] = d

\* The clock moves on.  Seconds in which no directory was named are not told
\* apart.
Tick ==
    /\ now < MaxTime
    /\ Stamped(now)
    /\ now' = now + 1
    /\ UNCHANGED <<meta, diskCards, _stores, _label_to_dir, _card_index, deletes>>
    /\ UNCHANGED notStudy

\* ArtifactStore.__init__ on a directory: mkdir, and a meta.json without
\* "label" when the directory has none.
StoreMeta(d) == IF Exists(d) THEN meta[d] ELSE Unlabelled

\* _load_study(dir_name): a store for the directory, its cards indexed.
_load_study(d) ==
    /\ meta' = [meta EXCEPT ![d] = StoreMeta(d)]
    /\ _stores' = _stores \cup {d}
    /\ _card_index' = [c \in StudyCards |->
                          IF c \in IndexOf(d) THEN d ELSE _card_index[c]]

\* get_or_create_study(label): the known study (its store rebuilt if it is not
\* loaded), or a new directory named after the clock and the sanitized label;
\* mkdir(exist_ok=True), meta.json written over whatever is there.
get_or_create_study(label) ==
    /\ IF _label_to_dir[label] # NoDir
       THEN /\ _label_to_dir[label] \notin _stores
            /\ _load_study(_label_to_dir[label])
            /\ UNCHANGED _label_to_dir
       ELSE /\ meta' = [meta EXCEPT ![_make_study_dir_name(now, label)] = label]
            /\ _stores' = _stores \cup {_make_study_dir_name(now, label)}
            /\ _label_to_dir' = [_label_to_dir EXCEPT
                                    ![label] = _make_study_dir_name(now, label)]
            /\ UNCHANGED _card_index
    /\ UNCHANGED <<now, diskCards, deletes>>
    /\ UNCHANGED notStudy

\* Card ids are fresh: a card is stored once, cards in the order of their ids.
FreshCard(c) ==
    /\ diskCards[c] = NoRecord
    /\ \A b \in StudyCards : b < c => diskCards[b] # NoRecord

\* show(obj, study=label) after its get_or_create_study: store.store_card
\* appends the record to the store's index.json, register_card indexes it.
ShowCard(label, c) ==
    /\ FreshCard(c)
    /\ _label_to_dir[label] \in _stores
    /\ diskCards' = [diskCards EXCEPT
                        ![c] = [dir |-> _label_to_dir[label], study |-> label]]
    /\ _card_index' = [_card_index EXCEPT ![c] = _label_to_dir[label]]
    /\ UNCHANGED <<now, meta, _stores, _label_to_dir, deletes>>
    /\ UNCHANGED notStudy

\* rename_study's three refusals.
RenameRefused(old, new) ==
    \/ _label_to_dir[old] = NoDir
    \/ (new # Blank /\ _label_to_dir[new] # NoDir)
    \/ new = Blank

\* The new directory name: the timestamp of the old one, the new slug.
NewDirName(old, new) == <<_label_to_dir[old][1], _sanitize_label(new)>>

\* if old_dir.exists() and not new_dir.exists(): old_dir.rename(new_dir)
DirMoves(old, new) ==
    Exists(_label_to_dir[old]) /\ ~Exists(NewDirName(old, new))

\* ArtifactStore.rename_study on the loaded store: the records whose study is
\* the old label get the new one.
Relabelled(old, new, c) ==
    IF /\ _label_to_dir[old] \in _stores
       /\ diskCards[c].dir = _label_to_dir[old]
       /\ diskCards[c].study = old
    THEN new ELSE diskCards[c].study

\* meta.json of the new directory after the rename: moved with the directory,
\* then "label" rewritten if the file exists.
MetaAfterRename(old, new, d) ==
    IF d = NewDirName(old, new)
    THEN IF DirMoves(old, new) \/ Exists(d) THEN new ELSE NoLabel
    ELSE IF d = _label_to_dir[old] /\ DirMoves(old, new) THEN NoLabel
    ELSE meta[d]

rename_study(old, new) ==
    /\ ~RenameRefused(old, new)
    /\ diskCards' = [c \in StudyCards |->
          [dir |-> IF diskCards[c].dir = _label_to_dir[old] /\ DirMoves(old, new)
                   THEN NewDirName(old, new) ELSE diskCards[c].dir,
           study |-> Relabelled(old, new, c)]]
    /\ meta' = [d \in StudyDirs |-> MetaAfterRename(old, new, d)]
    /\ _label_to_dir' = [l \in AllLabels |->
          IF l = new THEN NewDirName(old, new)
          ELSE IF l = old THEN NoDir ELSE _label_to_dir[l]]
    /\ _stores' = IF _label_to_dir[old] \in _stores
                  THEN (_stores \ {_label_to_dir[old]}) \cup {NewDirName(old, new)}
                  ELSE _stores
    /\ _card_index' = [c \in StudyCards |->
          IF _card_index[c] = _label_to_dir[old]
          THEN NewDirName(old, new) ELSE _card_index[c]]
    /\ UNCHANGED <<now, deletes>>
    /\ UNCHANGED notStudy

\* What rmtree leaves of the directory's index.
Rmtree(d, c) == IF diskCards[c].dir = d THEN [dir |-> Gone, study |-> diskCards[c].study]
                ELSE diskCards[c]

\* delete_study(label): rmtree, then the three dictionaries.
Evicted(d, c) == IF _card_index[c] = d THEN NoDir ELSE _card_index[c]

delete_study(label) ==
    /\ deletes < MaxDeletes
    /\ deletes' = deletes + 1
    /\ _label_to_dir[label] # NoDir
    /\ meta' = [d \in StudyDirs |->
                   IF d = _label_to_dir[label] THEN NoLabel ELSE meta[d]]
    /\ diskCards' = [c \in StudyCards |-> Rmtree(_label_to_dir[label], c)]
    /\ _stores' = _stores \ {_label_to_dir[label]}
    /\ _label_to_dir' = [_label_to_dir EXCEPT ![label] = NoDir]
    /\ _card_index' = [c \in StudyCards |-> Evicted(_label_to_dir[label], c)]
    /\ UNCHANGED now
    /\ UNCHANGED notStudy

\* The directories refresh loads: on disk and not a key of _stores.
Unloaded == {d \in OnDisk : d \notin _stores}

\* refresh(): each new directory sets _label_to_dir[label] and is loaded.
\* iterdir() yields them in no particular order: of several new directories
\* with one label the one listed last keeps it, here the last or the first in
\* name order.
ListedLast(l, rev) ==
    CHOOSE d \in Unloaded :
        /\ LabelOf(d) = l
        /\ \A e \in Unloaded : LabelOf(e) = l /\ e # d =>
              IF rev THEN DirBefore(d, e) ELSE DirBefore(e, d)

refresh(rev) ==
    /\ Unloaded # {}
    /\ _label_to_dir' = [l \in AllLabels |->
          IF \E d \in Unloaded : LabelOf(d) = l
          THEN ListedLast(l, rev) ELSE _label_to_dir[l]]
    /\ _stores' = _stores \cup Unloaded
    /\ _card_index' = [c \in StudyCards |->
          IF diskCards[c].dir \in Unloaded THEN diskCards[c].dir
          ELSE _card_index[c]]
    /\ UNCHANGED <<now, meta, diskCards, deletes>>
    /\ UNCHANGED notStudy

\* _discover_studies on an empty manager: sorted(iterdir()), so of the
\* directories with one label the last in order keeps the label.
DiscoveredDir(l) ==
    IF \E d \in OnDisk : LabelOf(d) = l
    THEN CHOOSE d \in OnDisk :
            /\ LabelOf(d) = l
            /\ \A e \in OnDisk : LabelOf(e) = l /\ e # d => DirBefore(e, d)
    ELSE NoDir

DiscoveredIndex(c) ==
    IF diskCards[c].dir \in OnDisk THEN diskCards[c].dir ELSE NoDir

\* The process ends and a new StudyManager(vitrine_dir) is constructed.
Manager_Restart ==
    /\ _label_to_dir' = [l \in AllLabels |-> DiscoveredDir(l)]
    /\ _stores' = OnDisk
    /\ _card_index' = [c \in StudyCards |-> DiscoveredIndex(c)]
    /\ UNCHANGED <<now, meta, diskCards, deletes>>
    /\ UNCHANGED notStudy

\* The new labels a rename is asked for.
NewLabels == StudyLabels \cup {Blank}

\* Creations, stores and renames as the clock moves on.
StudyOps ==
    \/ Tick
    \/ \E l \in StudyLabels : get_or_create_study(l)
    \/ \E l \in StudyLabels, c \in StudyCards : ShowCard(l, c)
    \/ \E old \in AllLabels, new \in NewLabels : rename_study(old, new)

PersistNext == StudyOps \/ Manager_Restart

StudyNext ==
    \/ StudyOps
    \/ \E l \in AllLabels : delete_study(l)
    \/ \E rev \in BOOLEAN : refresh(rev)

\* ------------------------------------------- gated endpoints, event queue
\* The endpoints behind _check_auth (/api/command, /api/shutdown,
\* /api/response/{id}, /api/events) on one server, and the queue of UI events
\* that _handle_ws_event fills and /api/events drains.

\* Bound: arrival numbers an event can carry before the queue is drained.
MaxEvents == 1002
\* Bound: events queued in the runs that follow the endpoints only.
MaxQueued == 2

\* `if len(self._event_queue) > 1000: self._event_queue = self._event_queue[-500:]`
QueueCap == 1000
QueueKeep == 500

\* secrets.token_hex(16) of _run_standalone.
Secret == "5ec2e7"
Endpoints == {"command", "shutdown", "response", "events"}
\* The Authorization header of a request; "" when the header is missing.
AuthHeaders == {"", "Bearer guess", Secret, "Bearer " \o Secret}
NoApiReq == [endpoint |-> "none", authorization |-> ""]

ApiInit ==
    /\ token = "unset"
    /\ apiReq = NoApiReq
    /\ apiReply = 0
    /\ apiSent = <<>>
    /\ apiPending = FALSE
    /\ apiExit = FALSE
    /\ _event_queue = <<>>

\* A server is constructed when none serves: _run_standalone passes
\* token=secrets.token_hex(16); _ensure_started's in-thread fallback and
\* start() call DisplayServer(...) without a token.
Server_New(standalone) ==
    /\ token = "unset" \/ (apiExit /\ apiReq = NoApiReq)
    /\ token' = IF standalone THEN Secret ELSE None
    /\ apiReq' = NoApiReq
    /\ apiReply' = 0
    /\ apiSent' = <<>>
    /\ apiPending' = FALSE
    /\ apiExit' = FALSE
    /\ _event_queue' = <<>>
    /\ UNCHANGED notApi

ApiServing == token # "unset" /\ ~apiExit

\* A client sends a request to one of the gated endpoints.
Client_Send(endpoint, authorization) ==
    /\ ApiServing
    /\ apiReq = NoApiReq
    /\ apiReq' = [endpoint |-> endpoint, authorization |-> authorization]
    /\ apiReply' = 0
    /\ apiSent' = <<>>
    /\ UNCHANGED <<token, apiPending, apiExit, _event_queue>>
    /\ UNCHANGED notApi

\* _check_auth: no token configured lets every request through.
_check_auth(authorization) ==
    IF token = None THEN TRUE ELSE authorization = "Bearer " \o token

\* _api_command with a card: broadcast display.add.
Api_Command ==
    /\ apiReq.endpoint = "command"
    /\ apiReq' = NoApiReq
    /\ IF _check_auth(apiReq.authorization)
       THEN apiReply' = 200 /\ apiSent' = <<"display.add">>
       ELSE apiReply' = 401 /\ apiSent' = <<>>
    /\ UNCHANGED <<token, apiPending, apiExit, _event_queue>>
    /\ UNCHANGED notApi

\* _api_shutdown: self._server.should_exit = True.
Api_Shutdown ==
    /\ apiReq.endpoint = "shutdown"
    /\ apiReq' = NoApiReq
    /\ IF _check_auth(apiReq.authorization)
       THEN apiReply' = 200 /\ apiExit' = TRUE
       ELSE apiReply' = 401 /\ apiExit' = apiExit
    /\ UNCHANGED <<token, apiSent, apiPending, _event_queue>>
    /\ UNCHANGED notApi

\* _api_response up to the await in wait_for_response: the future is
\* registered in _pending_responses.
Api_ResponseWait ==
    /\ apiReq.endpoint = "response"
    /\ IF _check_auth(apiReq.authorization)
       THEN /\ apiReq' = [apiReq EXCEPT !.endpoint = "response_wait"]
            /\ apiPending' = TRUE
            /\ apiReply' = apiReply
       ELSE /\ apiReq' = NoApiReq
            /\ apiPending' = apiPending
            /\ apiReply' = 401
    /\ UNCHANGED <<token, apiSent, apiExit, _event_queue>>
    /\ UNCHANGED notApi

\* wait_for_response returns (the timeout here): the future is popped and the
\* result is the answer.
Api_ResponseReturn ==
    /\ apiReq.endpoint = "response_wait"
    /\ apiReq' = NoApiReq
    /\ apiPending' = FALSE
    /\ apiReply' = 200
    /\ UNCHANGED <<token, apiSent, apiExit, _event_queue>>
    /\ UNCHANGED notApi

\* _api_events: the queue is returned and cleared.
Api_Events ==
    /\ apiReq.endpoint = "events"
    /\ apiReq' = NoApiReq
    /\ IF _check_auth(apiReq.authorization)
       THEN apiReply' = 200 /\ _event_queue' = <<>>
       ELSE apiReply' = 401 /\ _event_queue' = _event_queue
    /\ UNCHANGED <<token, apiSent, apiPending, apiExit>>
    /\ UNCHANGED notApi

\* The arrival number of the next event: one more than the newest queued.
NextEvent ==
    IF _event_queue = <<>> THEN 1 ELSE _event_queue[Len(_event_queue)] + 1

\* list[-n:] of Python.
LastN(seq, n) ==
    IF Len(seq) <= n THEN seq ELSE SubSeq(seq, Len(seq) - n + 1, Len(seq))

\* The queue after `append(event)` and the bound that follows it.
Queued(queue, event) ==
    IF Len(queue) + 1 > QueueCap
    THEN LastN(Append(queue, event), QueueKeep)
    ELSE Append(queue, event)

\* _handle_ws_event, a general event (row_click, point_select, ...): it is
\* appended to the queue under the lock.
Ws_Event ==
    /\ ApiServing
    /\ NextEvent <= MaxEvents
    /\ _event_queue' = Queued(_event_queue, NextEvent)
    /\ UNCHANGED <<token, apiReq, apiReply, apiSent, apiPending, apiExit>>
    /\ UNCHANGED notApi

\* The same with few events queued.
Ws_EventFew == Len(_event_queue) < MaxQueued /\ Ws_Event

\* The queue: events arrive, an authorized client polls /api/events.
EventsNext ==
    \/ Server_New(TRUE)
    \/ Ws_Event
    \/ Client_Send("events", "Bearer " \o Secret)
    \/ Api_Events

ApiNext ==
    \/ \E standalone \in BOOLEAN : Server_New(standalone)
    \/ \E endpoint \in Endpoints, authorization \in AuthHeaders :
        Client_Send(endpoint, authorization)
    \/ Api_Command
    \/ Api_Shutdown
    \/ Api_ResponseWait
    \/ Api_ResponseReturn
    \/ Api_Events
    \/ Ws_EventFew

\* ---------------------------------------------------- the stream monitor
\* One dispatch from run_agent to its end: the throttled card updates of
\* _stream_monitor, the final update, and the removal of the sandbox and of
\* the paper workspace's copies.

\* Bound: text chunks the child prints.
MaxLines == 2
\* Bound: the last instant of the clock, in milliseconds.
MaxClock == 2000

\* _UPDATE_INTERVAL = 0.5 seconds, in milliseconds.
_UPDATE_INTERVAL == 500
\* The clock is read at half-interval steps; loop.time() is time.monotonic(),
\* which is past the first interval when a monitor starts.
TickMs == _UPDATE_INTERVAL \div 2
ClockStart == 2 * _UPDATE_INTERVAL

\* reproduce runs in a sandbox, paper in the paper workspace, the other
\* tasks (report, ...) in the study directory.
Tasks == {"reproduce", "paper", "report"}
\* Of the items _create_paper_workspace copies (scripts, data, plots,
\* PROTOCOL.md, RESULTS.md, REPORT.md), a directory and a file.
StudyItems == {"plots", "REPORT.md"}
\* What the agent may create in its working directory.
AgentPaths == {"paper.md", "plots/fig2.png"}
\* The entry of output/paper a path lies in.
ItemOf(path) == IF path = "plots/fig2.png" THEN "plots" ELSE path

Out(n, note) == [text |-> n, note |-> note]
NoExtra == [sandbox |-> FALSE, paper_workspace |-> FALSE, paper_copies |-> {}]

StreamInit ==
    /\ clock = ClockStart
    /\ smPc = "idle"
    /\ smStatus = "pending"
    /\ smProc = "none"
    /\ accumulated = 0
    /\ final_result = None
    /\ last_update = 0
    /\ smCard = [status |-> "pending", output |-> Out(0, ""), error |-> None]
    /\ smSent = <<>>
    /\ extra = NoExtra
    /\ sandbox = FALSE
    /\ paperFiles = {}
    /\ agentMade = {}

Clock_Tick ==
    /\ clock + TickMs <= MaxClock
    /\ clock' = clock + TickMs
    /\ UNCHANGED <<smPc, smStatus, smProc, accumulated, final_result,
                   last_update, smCard, smSent, extra, sandbox, paperFiles,
                   agentMade>>
    /\ UNCHANGED notStream

\* _create_paper_workspace: the items of the study that are not in
\* output/paper yet are copied.
PaperCopies(present) == {item \in present : item \notin paperFiles}

\* run_agent: the working directory of the task, Popen, status running, the
\* card update, agent.started, and the monitor task.  `present` are the items
\* the study's output directory holds.
Run_Agent(task, present) ==
    /\ smPc = "idle"
    /\ extra' = [sandbox |-> task = "reproduce",
                 paper_workspace |-> task = "paper",
                 paper_copies |-> IF task = "paper" THEN PaperCopies(present)
                                  ELSE {}]
    /\ sandbox' = (sandbox \/ task = "reproduce")
    /\ paperFiles' = IF task = "paper"
                     THEN paperFiles \cup PaperCopies(present) ELSE paperFiles
    /\ smProc' = "alive"
    /\ smStatus' = "running"
    /\ smCard' = [smCard EXCEPT !.status = "running",
                                !.output = Out(0, "*Agent starting...*")]
    /\ smSent' = <<"display.update", "agent.started">>
    /\ smPc' = "read"
    /\ UNCHANGED <<clock, accumulated, final_result, last_update, agentMade>>
    /\ UNCHANGED notStream

\* The agent creates a file in the paper workspace (and the directory it is
\* in, when that is missing).
Agent_Write(path) ==
    /\ smProc = "alive"
    /\ extra.paper_workspace
    /\ path \notin paperFiles
    /\ paperFiles' = paperFiles \cup {path, ItemOf(path)}
    /\ agentMade' = agentMade \cup ({path, ItemOf(path)} \ paperFiles)
    /\ UNCHANGED <<clock, smPc, smStatus, smProc, accumulated, final_result,
                   last_update, smCard, smSent, extra, sandbox>>
    /\ UNCHANGED notStream

Child_Exit ==
    /\ smProc = "alive"
    /\ smProc' = "exited"
    /\ UNCHANGED <<clock, smPc, smStatus, accumulated, final_result,
                   last_update, smCard, smSent, extra, sandbox, paperFiles,
                   agentMade>>
    /\ UNCHANGED notStream

\* `if now - last_update >= _UPDATE_INTERVAL`
UpdateDue == clock - last_update >= _UPDATE_INTERVAL

\* _stream_monitor: a line with text is read; the card is updated when the
\* interval has passed since the last update, else only `accumulated` grows.
Mon_Text ==
    /\ smPc = "read"
    /\ smProc = "alive"
    /\ accumulated < MaxLines
    /\ accumulated' = accumulated + 1
    /\ IF UpdateDue
       THEN /\ smCard' = [smCard EXCEPT !.output = Out(accumulated + 1, "")]
            /\ smSent' = <<"display.update">>
            /\ last_update' = clock
       ELSE /\ smSent' = <<>>
            /\ UNCHANGED <<smCard, last_update>>
    /\ UNCHANGED <<clock, smPc, smStatus, smProc, final_result, extra,
                   sandbox, paperFiles, agentMade>>
    /\ UNCHANGED notStream

\* _stream_monitor: a "result" event is read.
Mon_Result ==
    /\ smPc = "read"
    /\ smProc = "alive"
    /\ final_result = None
    /\ final_result' = "result"
    /\ smSent' = <<>>
    /\ UNCHANGED <<clock, smPc, smStatus, smProc, accumulated, last_update,
                   smCard, extra, sandbox, paperFiles, agentMade>>
    /\ UNCHANGED notStream

\* _cleanup_paper_workspace: each copied item is removed, a directory with
\* all it holds (shutil.rmtree).
CleanedPaper ==
    {path \in paperFiles : ItemOf(path) \notin extra.paper_copies}
\* _cleanup_sandbox
CleanedSandbox == IF extra.sandbox THEN FALSE ELSE sandbox

\* The `finally` of _stream_monitor, and the same lines in cancel_agent and
\* cleanup_dispatches.
Cleanup ==
    /\ paperFiles' = IF extra.paper_workspace /\ extra.paper_copies # {}
                     THEN CleanedPaper ELSE paperFiles
    /\ sandbox' = CleanedSandbox

ExitDisplay(rc) ==
    IF rc = 0
    THEN (IF final_result # None THEN Out(0, final_result)
          ELSE IF accumulated = 0
          THEN Out(0, "*Agent completed with no output.*")
          ELSE Out(accumulated, ""))
    ELSE Out(accumulated, "**Error:** " \o ExitError(rc))

\* _stream_monitor: readline returns b"", proc.wait() gives the return code:
\* status, final card update, agent.completed or agent.failed, `finally`.
Mon_Finish(rc) ==
    /\ smPc = "read"
    /\ smProc = "exited"
    /\ smStatus' = ExitStatus(rc)
    /\ smCard' = [status |-> ExitStatus(rc), output |-> ExitDisplay(rc),
                  error |-> IF rc = 0 THEN smCard.error ELSE ExitError(rc)]
    /\ smSent' = <<"display.update", "agent." \o ExitStatus(rc)>>
    /\ Cleanup
    /\ smPc' = "done"
    /\ UNCHANGED <<clock, smProc, accumulated, final_result, last_update,
                   extra, agentMade>>
    /\ UNCHANGED notStream

\* _stream_monitor: no line for _DISPATCH_TIMEOUT seconds: terminate (kill),
\* status failed, final card update, agent.failed, `finally`.
Mon_Timeout ==
    /\ smPc = "read"
    /\ smProc = "alive"
    /\ smProc' = "exited"
    /\ smStatus' = "failed"
    /\ smCard' = [status |-> "failed",
                  output |-> Out(accumulated, "**Timed out**"),
                  error |-> TimeoutError]
    /\ smSent' = <<"display.update", "agent.failed">>
    /\ Cleanup
    /\ smPc' = "done"
    /\ UNCHANGED <<clock, accumulated, final_result, last_update, extra,
                   agentMade>>
    /\ UNCHANGED notStream

\* _stream_monitor, `except Exception` (a card update that raises, a line
\* that cannot be handled): status failed; the card update is tried once
\* more and may fail again; nothing else is broadcast; `finally`.
Mon_Error(updated) ==
    /\ smPc = "read"
    /\ smStatus' = "failed"
    /\ IF updated
       THEN /\ smCard' = [status |-> "failed",
                          output |-> Out(accumulated, "**Error:** monitor"),
                          error |-> "monitor"]
            /\ smSent' = <<"display.update">>
       ELSE /\ smCard' = smCard
            /\ smSent' = <<>>
    /\ Cleanup
    /\ smPc' = "done"
    /\ UNCHANGED <<clock, smProc, accumulated, final_result, last_update,
                   extra, agentMade>>
    /\ UNCHANGED notStream

\* cancel_agent on the running dispatch: terminate, monitor_task.cancel(),
\* status cancelled, the clean-up, the card stored as failed, agent.failed.
Mon_Cancel ==
    /\ smStatus = "running"
    /\ smPc = "read"
    /\ smProc' = "exited"
    /\ smStatus' = "cancelled"
    /\ smCard' = [status |-> "failed",
                  output |-> Out(accumulated, "*Cancelled by user.*"),
                  error |-> "Cancelled by user"]
    /\ smSent' = <<"display.update", "agent.failed">>
    /\ Cleanup
    /\ smPc' = "done"
    /\ UNCHANGED <<clock, accumulated, final_result, last_update, extra,
                   agentMade>>
    /\ UNCHANGED notStream

\* cleanup_dispatches at server stop: a running dispatch is terminated and
\* marked cancelled, every dispatch's working directory is cleaned, and
\* _dispatches is cleared.
Mon_Shutdown ==
    /\ smPc \in {"read", "done"}
    /\ smProc' = IF smStatus = "running" THEN "exited" ELSE smProc
    /\ smStatus' = IF smStatus = "running" THEN "cancelled" ELSE smStatus
    /\ Cleanup
    /\ smSent' = <<>>
    /\ smPc' = "stopped"
    /\ UNCHANGED <<clock, accumulated, final_result, last_update, smCard,
                   extra, agentMade>>
    /\ UNCHANGED notStream

StreamNext ==
    \/ Clock_Tick
    \/ \E task \in Tasks, present \in SUBSET StudyItems : Run_Agent(task, present)
    \/ \E path \in AgentPaths : Agent_Write(path)
    \/ Child_Exit
    \/ Mon_Text
    \/ Mon_Result
    \/ \E rc \in ReturnCodes : Mon_Finish(rc)
    \/ Mon_Timeout
    \/ \E updated \in BOOLEAN : Mon_Error(updated)
    \/ Mon_Cancel
    \/ Mon_Shutdown

\* ------------------------------------------------------- table search
\* ArtifactStore.read_table_page with a search string.  A string is the
\* sequence of its characters.

\* Bound: length of the search string.
MaxSearchLen == 5

\* Letters (they spell the keyword DROP in mixed case), and one character of
\* each kind the sanitizer tells apart.
WordChars == {"D", "r", "o", "p"}
SearchChars == WordChars \cup {" ", "-", "'", ";", "%"}
\* r"\b(DROP|DELETE|INSERT|UPDATE|ALTER|CREATE|EXEC|UNION)\b", re.IGNORECASE:
\* the first of the eight.
Keyword == <<"D", "r", "o", "p">>
\* r"^[\w\s.,\-:/'\"()]+$"
AllowedChars == WordChars \cup {" ", "-", "'"}
\* _sanitize_search returns None.
NoSearch == <<None>>

SearchInit ==
    /\ search = <<>>
    /\ sqlWhere = <<>>
    /\ page = "none"

RECURSIVE LStrip(_)
LStrip(s) == IF s # <<>> /\ Head(s) = " " THEN LStrip(Tail(s)) ELSE s
RECURSIVE RStrip(_)
RStrip(s) ==
    IF s # <<>> /\ s[Len(s)] = " " THEN RStrip(SubSeq(s, 1, Len(s) - 1)) ELSE s
\* str.strip()
Strip(s) == RStrip(LStrip(s))

\* \b at the edge of s[i]: there is no word character at position i.
NoWordAt(s, i) == i < 1 \/ i > Len(s) \/ s[i] \notin WordChars
\* sql_keywords.search(s)
HasKeyword(s) ==
    \E i \in 1..(Len(s) - Len(Keyword) + 1) :
        /\ SubSeq(s, i, i + Len(Keyword) - 1) = Keyword
        /\ NoWordAt(s, i - 1)
        /\ NoWordAt(s, i + Len(Keyword))
\* "--" in s or ";" in s
HasComment(s) ==
    \/ \E i \in 1..(Len(s) - 1) : s[i] = "-" /\ s[i + 1] = "-"
    \/ \E i \in 1..Len(s) : s[i] = ";"

\* (mutant) a sanitizer that only strips.
_sanitize_search_StripOnly(s) == IF Strip(s) = <<>> THEN NoSearch ELSE Strip(s)

_sanitize_search(s) ==
    IF Strip(s) = <<>> THEN NoSearch
    ELSE IF HasKeyword(Strip(s)) THEN NoSearch
    ELSE IF HasComment(Strip(s)) THEN NoSearch
    ELSE IF \E i \in 1..Len(Strip(s)) : Strip(s)[i] \notin AllowedChars
    THEN NoSearch
    ELSE Strip(s)

\* _build_search_where: backslash, % and _ get a backslash, a single quote is
\* doubled.
RECURSIVE Escaped(_)
Escaped(s) ==
    IF s = <<>> THEN <<>>
    ELSE (IF Head(s) = "%" THEN <<"\\", "%">>
          ELSE IF Head(s) = "'" THEN <<"'", "'">>
          ELSE <<Head(s)>>) \o Escaped(Tail(s))

\* " WHERE <col> ILIKE '%<escaped>%' ESCAPE '\'" for the table's column.
_build_search_where(s) == <<" WHERE col ILIKE ", "'%">> \o Escaped(s) \o <<"%'">>

\* The text between '% and %' in a WHERE clause.
Literal(where) == SubSeq(where, 3, Len(where) - 1)

\* The browser types the search box's next character.
Search_Type(c) ==
    /\ page = "none"
    /\ Len(search) < MaxSearchLen
    /\ search' = Append(search, c)
    /\ UNCHANGED <<sqlWhere, page>>
    /\ UNCHANGED notSearch

\* read_table_page(card_id, search=search): the WHERE clause is built from the
\* sanitized string when there is one; the query runs.
read_table_page ==
    /\ page = "none"
    /\ LET sanitized == IF search # <<>> THEN _sanitize_search(search)
                        ELSE NoSearch
           where == IF sanitized # NoSearch THEN _build_search_where(sanitized)
                    ELSE <<>>
       IN  /\ sqlWhere' = where
           /\ page' = IF where = <<>> THEN "unfiltered" ELSE "filtered"
    /\ UNCHANGED search
    /\ UNCHANGED notSearch

SearchNext ==
    \/ \E c \in SearchChars : Search_Type(c)
    \/ read_table_page

\* ------------------------------------------------- writers of index.json
\* One study's index.json, written by the client process (show() stores the
\* card through its own ArtifactStore before it pushes it) and by the server
\* process (update_card in the event handlers).  _read_index and
\* _write_index are separate file operations; there is no lock on the file.

\* Bound: cards shown.
NumIndexCards == 2
IndexCards == 1..NumIndexCards

\* A change of the index: the card's record itself, or one field set on it.
Change(c, field) == <<c, field>>
NoChange == Change(0, "none")
\* The client between the calls of one show(): idle, about to write what it
\* read, or about to push the card it has stored.
ClientIdle == [pc |-> "idle", snapshot |-> {}, change |-> NoChange]
ClientStored(c) ==
    [pc |-> "push", snapshot |-> {}, change |-> Change(c, "card")]

IndexInit ==
    /\ indexFile = {}
    /\ idxClient = ClientIdle
    /\ idxServer = [pc |-> "idle", snapshot |-> {}, change |-> NoChange,
                    pushed |-> {}]
    /\ acked = {}

\* update_card on the list that was read: the field is set when the card is
\* in the list, and the list is written back; else nothing is written.
Updated(index, change) ==
    IF Change(change[1], "card") \in index THEN index \cup {change} ELSE index

\* show() in the client: render() -> store.store_card -> _append_to_index:
\* _read_index.  Cards are shown in order.
Client_StoreRead(c) ==
    /\ idxClient.pc = "idle"
    /\ Change(c, "card") \notin acked
    /\ \A b \in IndexCards : b < c => Change(b, "card") \in acked
    /\ idxClient' = [pc |-> "write", snapshot |-> indexFile,
                     change |-> Change(c, "card")]
    /\ UNCHANGED <<indexFile, idxServer, acked>>
    /\ UNCHANGED notIndex

\* show(wait=True / prompt=...) after the card is stored:
\* store.update_card(card.card_id, **interaction_updates): _read_index.
Client_UpdateRead ==
    /\ idxClient.pc = "push"
    /\ Change(idxClient.change[1], "prompt") \notin acked
    /\ idxClient' = [pc |-> "write", snapshot |-> indexFile,
                     change |-> Change(idxClient.change[1], "prompt")]
    /\ UNCHANGED <<indexFile, idxServer, acked>>
    /\ UNCHANGED notIndex

\* show(replace=card_id) on a card shown before:
\* replace_store.update_card(replace, title=..., preview=...): _read_index.
Client_ReplaceRead(c) ==
    /\ idxClient.pc = "idle"
    /\ c \in idxServer.pushed
    /\ Change(c, "preview") \notin acked
    /\ idxClient' = [pc |-> "write", snapshot |-> indexFile,
                     change |-> Change(c, "preview")]
    /\ UNCHANGED <<indexFile, idxServer, acked>>
    /\ UNCHANGED notIndex

\* The client's _write_index: the list it read, with its change.  After a
\* replace the call is over; else the card is yet to be pushed.
Client_Write ==
    /\ idxClient.pc = "write"
    /\ indexFile' = IF idxClient.change[2] = "card"
                    THEN idxClient.snapshot \cup {idxClient.change}
                    ELSE Updated(idxClient.snapshot, idxClient.change)
    /\ acked' = acked \cup {idxClient.change}
    /\ idxClient' = IF idxClient.change[2] = "preview" THEN ClientIdle
                    ELSE ClientStored(idxClient.change[1])
    /\ UNCHANGED idxServer
    /\ UNCHANGED notIndex

\* _push_remote / _server.push_card: the server learns of the card and
\* broadcasts it; show() returns.
Client_Push ==
    /\ idxClient.pc = "push"
    /\ idxServer' = [idxServer EXCEPT !.pushed = @ \cup {idxClient.change[1]}]
    /\ idxClient' = ClientIdle
    /\ UNCHANGED <<indexFile, acked>>
    /\ UNCHANGED notIndex

\* The server handles a browser event on a card it was pushed (dismissal):
\* store.update_card(card_id, dismissed=True): _read_index.
Server_UpdateRead(c) ==
    /\ idxServer.pc = "idle"
    /\ c \in idxServer.pushed
    /\ Change(c, "dismissed") \notin acked
    /\ idxServer' = [idxServer EXCEPT !.pc = "write", !.snapshot = indexFile,
                                      !.change = Change(c, "dismissed")]
    /\ UNCHANGED <<indexFile, idxClient, acked>>
    /\ UNCHANGED notIndex

\* The server's _write_index.
Server_Write ==
    /\ idxServer.pc = "write"
    /\ indexFile' = Updated(idxServer.snapshot, idxServer.change)
    /\ acked' = acked \cup {idxServer.change}
    /\ idxServer' = [idxServer EXCEPT !.pc = "idle", !.snapshot = {},
                                      !.change = NoChange]
    /\ UNCHANGED idxClient
    /\ UNCHANGED notIndex

IndexNext ==
    \/ \E c \in IndexCards :
        \/ Client_StoreRead(c)
        \/ Client_ReplaceRead(c)
        \/ Server_UpdateRead(c)
    \/ Client_UpdateRead
    \/ Client_Write
    \/ Client_Push
    \/ Server_Write

DispNext ==
    \/ CreateAgentCard
    \/ \E d \in PendingInfos, cli \in BOOLEAN : RunAgent(d, cli)
    \/ \E d \in Unmonitored : RunAgent_StartMonitor(d)
    \/ \E d \in WithProcess : ChildExit(d)
    \/ \E d \in Reading :
        \/ StreamMonitor_EOF(d)
        \/ StreamMonitor_Timeout(d)
    \/ \E d \in Waiting, rc \in ReturnCodes : StreamMonitor_Finish(d, rc)
    \/ \E d \in Sleeping : StreamMonitor_TimeoutFail(d)
    \/ \E d \in Cancelling : StreamMonitor_Cancelled(d)
    \/ \E d \in RunningInfos :
        \/ CancelAgent(d)
        \/ DispatchWatchdog(d)

StarterNext ==
    \E s \in Starters :
        \/ LaunchStandalone(s)
        \/ RunStandalone_Lock(s)
        \/ RunStandalone_CheckPid(s)
        \/ RunStandalone_KillOrphans(s)
        \/ Start_FindPort(s)
        \/ Start_Bind(s)
        \/ Start_OpenPid(s)
        \/ Start_WritePid(s)
        \/ RunStandalone_Unlock(s)
        \/ Signal(s)
        \/ Stop_RemovePid(s)
        \/ Stop_Exit(s)

ClientNext ==
    \E c \in Clients :
        \/ EnsureStarted_Enter(c)
        \/ Discover_Read(c)
        \/ EnsureStarted_Fast(c)
        \/ EnsureStarted_Lock(c)
        \/ EnsureStarted_Locked(c)
        \/ EnsureStarted_Poll(c)
        \/ EnsureStarted_Fallback(c)

LifeNext == StarterNext \/ ClientNext

\* Standalone starts with another project's server in the port range.
ReclaimNext == StarterNext \/ Neighbour_Start \/ Neighbour_Exit

\* ------------------------------------------------------- specifications
Init ==
    /\ LifeInit
    /\ WaitInit
    /\ DispInit
    /\ AgentInit
    /\ StopInit
    /\ ReplayInit
    /\ StudyInit
    /\ ApiInit
    /\ StreamInit
    /\ SearchInit
    /\ IndexInit

SpecLifecycle == Init /\ [][LifeNext]_vars

SpecReclaim == Init /\ [][ReclaimNext]_vars

SpecWait == Init /\ [][WaitNext]_vars

SpecDispatch == Init /\ [][DispNext]_vars

SpecAgent == Init /\ [][AgentNext]_vars

\* One server process for the life of the dispatches, its event loop running
\* the monitor tasks; requests, cancels and watchdog passes come as they may.
SpecAgentLive == Init /\ [][AgentSteps]_vars /\ AgentFairness

SpecStop == Init /\ [][StopNext]_vars

\* The standalone server process of _run_standalone: the main thread in
\* stop_event.wait(), the daemon loop thread, the timer threads.
SpecShutdown == Init /\ [][StopNext]_vars /\ StopFairness

SpecReplay == Init /\ [][ReplayNext]_vars

SpecStudy == Init /\ [][StudyNext]_vars

SpecPersist == Init /\ [][PersistNext]_vars

SpecEvents == Init /\ [][EventsNext]_vars

SpecApi == Init /\ [][ApiNext]_vars

SpecStream == Init /\ [][StreamNext]_vars

SpecSearch == Init /\ [][SearchNext]_vars

SpecIndex == Init /\ [][IndexNext]_vars

\* ----------------------------------------------------------------- claims
\* C1: at most one server for the directory is bound and serving at any time,
\* whatever the interleaving of standalone starts and client _ensure_started
\* calls (in-thread fallback included).
C1_AtMostOneServer == Cardinality(Serving) <= 1

\* The start-up race on its own: nobody has been told to stop, and no client
\* has taken part in the locking.
Launched == {s \in Starters : spc[s] # "idle"}
StartupDone == \A s \in Launched : spc[s] \in {"serving", "exited"}
RaceOnly == ~stopSeen /\ ~clientLocked

\* C2: of the starter processes started together on one directory, exactly
\* one writes the PID file; every other one exits without binding a port.
C2_SingletonRace ==
    (Cardinality(Launched) >= 2 /\ StartupDone /\ RaceOnly) =>
        /\ Cardinality(wrotePid) = 1
        /\ everBound = wrotePid
        /\ \A s \in Launched \ wrotePid : spc[s] = "exited"

C2_Witness ==
    \E s1, s2 \in Starters :
        /\ s1 # s2
        /\ RaceOnly
        /\ spc[s1] = "serving" /\ s1 \in wrotePid
        /\ spc[s2] = "exited" /\ s2 \notin everBound

\* The action a response event carries: payload.get("action", "confirm").
EventAction(p) == IF p.action = Absent THEN "confirm" ELSE p.action

\* C3: a response event for a card whose registered wait is pending resolves
\* that wait's future with the event's action, card id, message, artifact id,
\* summary and values, the stored card takes the event's action, and the
\* waiter returns exactly what its future was given.
C3_ResponseResolvesWait ==
    [][ /\ \A c \in Cards, p \in Payloads :
            HandleWsResponse(c, p) =>
                /\ cards[c].stored =>
                       cards'[c].response_action = EventAction(p)
                /\ (pending[c] # NoWait /\ futState[pending[c]] = "pending") =>
                       /\ futState'[pending[c]] = "result"
                       /\ futResult'[pending[c]].action = EventAction(p)
                       /\ futResult'[pending[c]].card_id = c
                       /\ futResult'[pending[c]].message = p.message
                       /\ futResult'[pending[c]].artifact_id =
                              (IF p.selected THEN ArtifactId(c) ELSE None)
                       /\ futResult'[pending[c]].summary = _build_summary(c, p)
                       /\ futResult'[pending[c]].values =
                              (IF p.form_values = Absent THEN "{}"
                               ELSE p.form_values)
        /\ \A w \in Waits :
            futState[w] = "result" =>
                /\ futResult'[w] = futResult[w]
                /\ wpc'[w] = "returned" => wret'[w] = futResult[w]
      ]_vars

C3_Witness ==
    \E w \in Waits :
        /\ wpc[w] = "returned"
        /\ futState[w] = "result"
        /\ wret[w] = futResult[w]
        /\ wret[w].action = "confirm"
        /\ cards[wcard[w]].response_action = "confirm"

C5_SecondWaitReceives ==
    [][ \A c \in Cards, p \in Payloads :
            (/\ HandleWsResponse(c, p)
             /\ newest[c] # NoWait
             /\ futState[newest[c]] = "pending")
            => futState'[newest[c]] = "result"
      ]_vars

\* C6: pending_responses only holds futures of waits that have not returned.
C6_NoEntryAfterExit ==
    \A c \in Cards :
        pending[c] # NoWait =>
            /\ wpc[pending[c]] = "waiting"
            /\ wcard[pending[c]] = c

C6_Witness ==
    \E w \in Waits :
        /\ wpc[w] = "returned"
        /\ futState[w] \in {"result", "cancelled"}
        /\ pending[wcard[w]] = NoWait

C8_RequestedXorAnswered ==
    \A c \in Cards :
        ~(cards[c].response_requested /\ cards[c].response_action # None)

\* C9: at most _MAX_CONCURRENT (5) dispatches of a server process are running
\* at any moment.
C9_AtMostFiveRunning == CountStatus("running") <= 5

C9_Witness ==
    /\ CountStatus("running") = 5
    /\ CountStatus("pending") >= 1
    /\ capHit

\* The one info a step changed: what it was and what it has become.
Before == BagToSet(dispatches (-) dispatches')
After == BagToSet(dispatches' (-) dispatches)
Terminal == {"completed", "failed", "cancelled"}
Allowed(a, b) ==
    \/ a = b
    \/ a = "pending" /\ b = "running"
    \/ a = "running" /\ b \in Terminal

\* C10: a dispatch starts pending and its status only moves pending ->
\* running -> completed | failed | cancelled; a terminal status stays.
C10_StatusLifecycle ==
    [][ /\ \A e \in After : Before = {} => e.status = "pending"
        /\ \A d \in Before : \A e \in After : Allowed(d.status, e.status)
      ]_vars

\* The run request for card `id` is answered in this step.
RunAnswered(id) == req = Request("run", id) /\ reply' # 0

\* C11: a run request that fails validation (no dispatch for the card, a
\* status other than pending, five dispatches already running, the agent CLI
\* not on PATH) spawns no child and leaves the dispatch, its status and the
\* stored card as they were; a card refused at the limit stays pending.
C11_RejectedRunChangesNothing ==
    [][ \A id \in CardIds :
          RunAnswered(id) =>
            /\ reply' \in {200, 400, 409}
            /\ InfoOf(id).status # "pending" => reply' # 200
            /\ reply' = 200 =>
                  /\ mem'[id].status = "running"
                  /\ mem'[id].proc = "alive"
            /\ reply' # 200 =>
                  /\ mem' = mem
                  /\ store' = store
                  /\ acc' = acc
                  /\ \A a \in Agents : mem'[a].proc = mem[a].proc
      ]_vars

C11_Witness ==
    \E a \in Agents :
        /\ reply = 409
        /\ mem[a] = DispatchInfo
        /\ store[a] = PendingAgentCard

\* A step that cancels the running dispatch of card a.
CancelStep(a) == Cancellable(mem[a]) /\ mem'[a].status = "cancelled"
Range(seq) == {seq[i] : i \in DOMAIN seq}

\* C12: cancelling a running dispatch (DELETE from the browser or the
\* WebSocket delete event) sends the child SIGTERM, cancels the monitor task,
\* marks the dispatch cancelled, stores the accumulated output followed by
\* "*Cancelled by user.*" and broadcasts agent.failed with the error
\* "Cancelled by user".
C12_CancelRunning ==
    [][ \A a \in Agents :
          /\ (/\ req \in {Request("delete", a), Request("ws_delete", a)}
              /\ req' = NoReq
              /\ Cancellable(mem[a])
              /\ mem'[a] # NoInfo) => CancelStep(a)
          /\ CancelStep(a) =>
              /\ mem[a].proc = "alive" => mem'[a].proc = "signalled"
              /\ mem[a].mon \in {"read", "wait", "sleep"} =>
                    mem'[a].mon = "cancelling"
              /\ store'[a].output =
                    (IF acc[a] = "" THEN "*Cancelled by user.*"
                     ELSE acc[a] \o "\n\n---\n*Cancelled by user.*")
              /\ Msg("agent.failed", a, "Cancelled by user") \in Range(sent')
      ]_vars

C12_Witness ==
    \E a \in Agents :
        /\ mem[a] = [status |-> "cancelled", proc |-> "signalled",
                     mon |-> "cancelling"]
        /\ store[a].output = "line\n\n---\n*Cancelled by user.*"
        /\ Msg("agent.failed", a, "Cancelled by user") \in Range(sent)

\* C13: when a server starts, every AGENT card stored as running or pending
\* (no dispatch is in memory then) is stored as failed with the error "Server
\* restarted while agent was running"; every other card is left as it is.
C13_ReconcileOrphans ==
    [][ Server_Restart =>
          \A a \in Agents :
            IF store[a].card_type = "agent"
               /\ store[a].status \in {"running", "pending"}
            THEN /\ store'[a].status = "failed"
                 /\ store'[a].error = "Server restarted while agent was running"
            ELSE store'[a] = store[a]
      ]_vars

\* The two mismatches between a child and its monitor task.
Mismatch(d) ==
    \/ ~_is_pid_alive(d) /\ d.mon \in {"read", "wait", "sleep"}
    \/ _is_pid_alive(d) /\ d.mon = "done"

\* C14: a running dispatch whose child pid is dead while its monitor task is
\* live, or whose monitor task has ended while the child is alive, is one the
\* watchdog's next pass marks failed ("Process exited unexpectedly").
C14_WatchdogFailsMismatch ==
    \A a \in Agents :
        (mem[a].status = "running" /\ Mismatch(mem[a])) => WatchdogFails(mem[a])

\* The DELETE request for card `id` is answered in this step.
DeleteAnswered(id) == req = Request("delete", id) /\ reply' # 0

\* C15: DELETE /api/agents/{id} for a card without a running dispatch in
\* memory: an AGENT card stored as running or pending is stored as failed and
\* the answer is 200; a terminal status, another card type or an unknown id
\* is answered 404 and nothing changes.
C15_DeleteForceFails ==
    [][ \A id \in CardIds :
          (DeleteAnswered(id) /\ InfoOf(id).status # "running") =>
            IF CardOf(id).card_type = "agent"
               /\ CardOf(id).status \in {"running", "pending"}
            THEN /\ store'[id].status = "failed"
                 /\ reply' = 200
            ELSE /\ reply' = 404
                 /\ store' = store
                 /\ mem' = mem
      ]_vars

C15_Witness ==
    \E a \in Agents :
        /\ reply = 200
        /\ mem[a] = NoInfo
        /\ store[a].status = "failed"
        /\ store[a].error = "Agent process no longer running"

\* C16: the PID file is only deleted by the server it records: a server
\* shutting down leaves a PID file that records another pid, and a PID file
\* recording a live, healthy server is not removed or replaced by anybody
\* else, whatever the interleaving of shutdown, discovery and start-up.
C16_PidFileOwnership ==
    [][ /\ \A s \in Starters :
            (spc[s] = "serving" /\ spc'[s] = "stopping" /\ pidFile.pid # s)
                => pidFile' = pidFile
        /\ (PidFileHealthy(pidFile) /\ pidFile' # pidFile) =>
                /\ spc[pidFile.pid] = "serving"
                /\ spc'[pidFile.pid] = "stopping"
      ]_vars

\* The record a client has read passes both checks of _discover_server.
Adoptable(info) ==
    /\ info.pid # NoPid
    /\ is_pid_alive(info.pid)
    /\ info.port \in Ports
    /\ portOwner[info.port] # NoPid
    /\ SessionOf(portOwner[info.port]) = info.session_id
\* Client c finishes a discovery in this step.
Discovered(c) == cinfo[c] # Unread /\ cinfo'[c] = Unread /\ cpc'[c] # "dead"

\* C17: discovery adopts a server only when the recorded pid is alive and the
\* health probe at the recorded address returns the recorded session id; a
\* readable record that fails either check yields no server and the PID file
\* is deleted as stale.
C17_DiscoveryChecks ==
    [][ \A c \in Clients :
          Discovered(c) =>
            /\ (cpc'[c] = "remote") <=> Adoptable(cinfo[c])
            /\ (cinfo[c].pid # NoPid /\ ~Adoptable(cinfo[c])) =>
                  pidFile' = NoFile
      ]_vars

C17_Witness ==
    \E c \in Clients, s \in wrotePid \ stopEvent :
        /\ cpc[c] = "remote"
        /\ spc[s] = "serving"
        /\ pidFile = NoFile

\* The PID file of the process's own directory names it and is healthy.
HasValidPidFile(pid) ==
    IF pid = Neighbour THEN neighbour = "serving"
    ELSE pidFile.pid = pid /\ PidFileHealthy(pidFile)
Signalled == (stopEvent' \ stopEvent)
             \cup {c \in Clients : cpc[c] # "dead" /\ cpc'[c] = "dead"}
             \cup (IF neighbour = "serving" /\ neighbour' = "signalled"
                   THEN {Neighbour} ELSE {})

\* C18: orphan reclamation sends SIGTERM only to servers on ports 7741-7750
\* that have no valid PID file; a server with a valid PID file (another
\* project's server on an adjacent port) is never terminated by it.
C18_ReclaimSparesValid ==
    [][ \A s \in Starters :
          (spc[s] = "reclaim" /\ spc'[s] = "bind") =>
              \A v \in Signalled : ~HasValidPidFile(v)
      ]_vars

\* C19: a server writes its PID file only after it has bound the port the
\* file records, and while it holds the start-up lock; the lock is released
\* only after the write.
C19_WriteAfterBind ==
    [][ \A s \in Starters :
          /\ (pidFile' # pidFile /\ pidFile'.pid = s) =>
                /\ portOwner[pidFile'.port] = s
                /\ lockHolder = s
                /\ lockHolder' = s
          /\ (lockHolder = s /\ lockHolder' # s /\ spc'[s] = "serving") =>
                pidFile.pid = s
      ]_vars

\* C20: the PID file is replaced atomically: a reader finds no file, the
\* complete previous record or the complete new one, never an empty or
\* partial file.
C20_AtomicPidFile == \A c \in Clients : cinfo[c] # Partial

\* The order of cleanup the specification gives for stop().
StopOrder ==
    <<"cancel_watchdog", "cleanup_dispatches", "remove_pid_file",
      "flush_selections", "should_exit", "join">>

Rank(step) == CHOOSE i \in 1..Len(StopOrder) : StopOrder[i] = step

InOrder(log) ==
    \A i, j \in 1..Len(log) : i < j => Rank(log[i]) < Rank(log[j])

\* C21: stop() cancels the watchdog task, terminates the running dispatches,
\* removes the PID file if and only if it records this process, flushes the
\* selections, tells the embedded server to exit and joins its thread, in
\* this order; a stop() that has returned has done all but the first, which
\* needs a watchdog task to cancel.
C21_CleanupOrder ==
    [][/\ InOrder(stopLog')
       /\ srvPid = "foreign" => srvPid' = "foreign"
       /\ (stopPc = "remove_pid_file" /\ stopPc' # stopPc /\ srvPid = "own") =>
              srvPid' = "absent"
       /\ stopPc' = "returned" =>
              Range(Tail(StopOrder)) \subseteq Range(stopLog')]_vars

C21_Witness ==
    /\ stopPc = "returned"
    /\ stopLog = StopOrder
    /\ srvPid = "absent"

\* The labels whose listing holds the card.
StudiesOf(c) == {l \in AllLabels : c \in list_all_cards(l)}

\* get_store_for_card(c) is a store whose index.json has the card.
Resolves(c) ==
    /\ get_store_for_card(c) # NoDir
    /\ c \in IndexOf(get_store_for_card(c))

\* C22: after any sequence of study and card operations, every card that
\* list_all_cards() returns resolves through get_store_for_card to a store
\* whose list_cards() contains it, and belongs to exactly one study.
C22_CardsResolve ==
    \A c \in list_every_card :
        /\ Resolves(c)
        /\ Cardinality(StudiesOf(c)) = 1

\* C23: after rename_study(a, b) has returned true, list_all_cards(study=a) is
\* empty, list_all_cards(study=b) holds exactly the cards that were under a,
\* and each of them has study b in its record.
C23_RenameMovesCards ==
    [][\A old \in AllLabels, new \in StudyLabels :
          rename_study(old, new) =>
              /\ list_all_cards(old)' = {}
              /\ list_all_cards(new)' = list_all_cards(old)
              /\ \A c \in list_all_cards(old) : diskCards'[c].study = new]_vars

\* C24: after delete_study(s) the directory of s does not exist and no card
\* that was listed under s resolves through the cross-study index.
C24_DeleteEvicts ==
    [][\A s \in AllLabels :
          delete_study(s) =>
              /\ meta'[_label_to_dir[s]] = NoLabel
              /\ \A c \in list_all_cards(s) : get_store_for_card(c)' = NoDir]_vars

\* The rename has happened: the old directory is gone, the new one is there
\* under the new label, the mappings and the card records name the new label.
RenameDone(old, new) ==
    /\ _label_to_dir[old] # NewDirName(old, new) =>
          meta'[_label_to_dir[old]] = NoLabel
    /\ meta'[NewDirName(old, new)] = new
    /\ _label_to_dir'[old] = NoDir
    /\ _label_to_dir'[new] = NewDirName(old, new)
    /\ NewDirName(old, new) \in _stores'
    /\ \A c \in StudyCards :
          diskCards[c].dir = _label_to_dir[old] =>
              diskCards'[c] = [dir |-> NewDirName(old, new), study |-> new]

\* C25: a call of rename_study either renames (old directory gone, new one
\* present, mappings and card records on the new label) or changes nothing.
C25_RenameAtomic ==
    [][\A old \in AllLabels, new \in StudyLabels :
          rename_study(old, new) =>
              RenameDone(old, new) \/ UNCHANGED studyVars]_vars

\* The labels the manager knows.
KnownLabels == {l \in AllLabels : _label_to_dir[l] # NoDir}

\* C26: labels and directories correspond one to one: no two labels map to one
\* directory, and every directory the manager holds is known under one label.
C26_LabelsOneToOne ==
    /\ \A k, l \in KnownLabels : k # l => _label_to_dir[k] # _label_to_dir[l]
    /\ \A d \in _stores :
          Cardinality({l \in KnownLabels : _label_to_dir[l] = d}) = 1

\* What list_all_cards(study=l) returns in a manager constructed now.
DiscoveredCards(l) ==
    IF DiscoveredDir(l) = NoDir THEN {} ELSE IndexOf(DiscoveredDir(l))

\* C27: a new manager on the same directory finds the labels this one knows,
\* and under each label the cards this one lists.
C27_RecoverableFromDisk ==
    \A l \in AllLabels :
        /\ l \in KnownLabels <=> DiscoveredDir(l) # NoDir
        /\ list_all_cards(l) = DiscoveredCards(l)

\* The messages the replay loop has sent to the socket.
ReplayedAdds ==
    {i \in 1..Len(wsLog) : wsLog[i].replay /\ wsLog[i].type = "display.add"}

\* C28: on connect the socket is sent one display.add for every stored card
\* that is not deleted and none for a card with deleted=true, then
\* display.replay_done.
C28_ReplaySkipsDeleted ==
    /\ \A i \in ReplayedAdds : ~wsLog[i].deleted
    /\ \A i, j \in ReplayedAdds : wsLog[i].card = wsLog[j].card => i = j
    /\ wsPc = "open" => \E i \in 1..Len(wsLog) : wsLog[i] = ReplayDone

\* C29: on a new socket every replayed display.add and display.replay_done
\* come before any broadcast message.
C29_ReplayBeforeBroadcast ==
    \A i, j \in 1..Len(wsLog) :
        i < j => ~(~wsLog[i].replay /\ wsLog[j].replay)

\* C30: once stop() has returned, selections.json equals the selection map in
\* memory.
C30_FlushedAtStop == stopPc = "returned" => selFile = selections

\* C31: the queue drained by /api/events never holds more than 1000 events;
\* an append that overflows it drops exactly the 500 oldest events and keeps
\* the newer ones in arrival order, and any other append keeps them all.
C31_QueueCapped ==
    [][/\ Len(_event_queue') <= 1000
       /\ (_event_queue' # _event_queue /\ _event_queue' # <<>>) =>
            LET all == Append(_event_queue, NextEvent)
            IN  _event_queue' = IF Len(all) > 1000
                                THEN SubSeq(all, 501, Len(all))
                                ELSE all]_vars

\* The request carries the server's bearer token.
Authorized(authorization) ==
    token # None /\ authorization = "Bearer " \o token

\* C32: a request to a gated endpoint that lacks the correct bearer token is
\* answered 401 and has no effect: nothing is broadcast, should_exit is not
\* set, no future is registered, the event queue is not drained.
C32_UnauthorizedNoEffect ==
    [][(/\ apiReq.endpoint \in Endpoints
        /\ apiReq' # apiReq
        /\ ~Authorized(apiReq.authorization))
       => /\ apiReply' = 401
          /\ apiSent' = <<>>
          /\ UNCHANGED <<apiExit, apiPending, _event_queue>>]_vars
\* C33: streamed card updates are trailing-debounced at 500 ms: a text line
\* read within the window of the last update causes no write and no
\* broadcast, and once the window has elapsed the card holds the latest
\* accumulated output, whether or not the child prints anything more.
C33_TrailingDebounce ==
    [][/\ (accumulated' # accumulated /\ ~UpdateDue)
            => (smCard' = smCard /\ smSent' = <<>>)
       /\ (smPc' = "read" /\ accumulated' > 0
           /\ clock' - last_update' > _UPDATE_INTERVAL)
            => smCard'.output = Out(accumulated', "")]_vars

\* The running dispatch completes: child exit, line-read timeout or monitor
\* error.
Completes == smStatus = "running" /\ smStatus' \in {"completed", "failed"}

\* C34: when a running dispatch completes, a final card update with the
\* terminal status and the complete accumulated output is stored and
\* broadcast, followed by agent.completed or agent.failed.
C34_FinalUpdate ==
    [][Completes =>
        /\ smCard'.status = smStatus'
        /\ smCard'.output.text = accumulated
        /\ smSent' = <<"display.update", "agent." \o smStatus'>>]_vars

Exited == smStatus \in {"completed", "failed", "cancelled"}

\* C35: when a dispatch exits (completion, failure, timeout, cancellation,
\* server shutdown) its sandbox is removed; of the paper workspace the copied
\* items are removed and everything the agent created there is still there.
C35_WorkspaceCleanup ==
    [][(~Exited /\ Exited') =>
        /\ ~sandbox'
        /\ extra.paper_copies \cap paperFiles' = {}
        /\ agentMade \subseteq paperFiles']_vars

\* What the sanitizer is to reject, said without its code: an empty or blank
\* string, one with the keyword as a word, with a comment or a terminator, or
\* with a character outside the allowed class.
Harmful(s) ==
    \/ \A i \in 1..Len(s) : s[i] = " "
    \/ \E i \in 1..Len(s) : s[i] \in {";", "%"}
    \/ \E i \in 1..(Len(s) - 1) : <<s[i], s[i + 1]>> = <<"-", "-">>
    \/ \E i \in 1..(Len(s) - 3) :
        /\ <<s[i], s[i + 1], s[i + 2], s[i + 3]>> = Keyword
        /\ (i = 1 \/ s[i - 1] \in {" ", "-", "'", ";", "%"})
        /\ (i + 3 = Len(s) \/ s[i + 4] \in {" ", "-", "'", ";", "%"})

\* Every single quote of the text is one of a pair.
RECURSIVE QuotesDoubled(_)
QuotesDoubled(s) ==
    IF s = <<>> THEN TRUE
    ELSE IF Head(s) # "'" THEN QuotesDoubled(Tail(s))
    ELSE Len(s) >= 2 /\ s[2] = "'" /\ QuotesDoubled(Tail(Tail(s)))

\* C36: for a search string the sanitizer rejects, the query has no WHERE
\* clause and returns the unfiltered page; a WHERE clause is only ever built
\* from the string the sanitizer accepted, escaped.
C36_RejectedSearchUnfiltered ==
    page # "none" =>
        /\ Harmful(search) => (sqlWhere = <<>> /\ page = "unfiltered")
        /\ sqlWhere # <<>> =>
            /\ ~Harmful(search)
            /\ Literal(sqlWhere) = Escaped(Strip(search))
            /\ QuotesDoubled(Literal(sqlWhere))

\* A string with a quote and a terminator was searched for.
C36_Witness ==
    /\ page = "unfiltered"
    /\ \E i \in 1..Len(search) : search[i] = ";"
    /\ \E i \in 1..Len(search) : search[i] = "'"
    /\ sqlWhere = <<>>

\* C37: only the server process writes a study's index.json once a card is
\* created, so read-modify-write updates of the index never interleave and no
\* appended card and no card update is lost.
C37_NoLostIndexWrite ==
    /\ ~(idxClient.pc = "write" /\ idxServer.pc = "write")
    /\ (idxClient.pc # "write" /\ idxServer.pc # "write")
        => acked \subseteq indexFile

\* get_agent_status: what GET /api/agents/{id} reports for a dispatch.
get_agent_status(a) == mem[a].status

\* C38: with no card update in flight, the status in an agent card's preview
\* equals the status GET /api/agents/{id} reports for its in-memory dispatch.
C38_PreviewMatchesDispatch ==
    \A a \in Agents :
        mem[a] # NoInfo => store[a].status = get_agent_status(a)


C40_ShutdownCleansUp ==
    (shouldExit /\ stopPc = "serving") ~> (stopPc = "returned")

====
